---------------------------- MODULE Spec2Model ----------------------------
(***************************************************************************)
(* Model of jobhistory_mcp.py: an MCP server that exposes the Hadoop       *)
(* JobHistory REST API as tools.  One tool invocation is modelled from the *)
(* host's call, through input validation, the upstream HTTP calls of the   *)
(* handler (each a suspension point), to the value handed back to the host.*)
(*                                                                         *)
(* Conventions.                                                            *)
(*  - A free-form string is a sequence of fragments (TLA+ strings); the    *)
(*    identifiers the host passes are given character by character, so     *)
(*    that their length and their surrounding whitespace are real.         *)
(*    Concatenation is \o.                                                 *)
(*  - An enumeration value is an atomic TLA+ string.                       *)
(*  - A JSON / Python value that may be missing is a record with a tag t:  *)
(*    Absent (key not there), JNull (null / None), JStr(s), JInt(n).       *)
(***************************************************************************)
EXTENDS Integers, Sequences, FiniteSets, TLC

VARIABLES
    pc,         \* position of the invocation: idle, await_rest, await_html, done, rejected
    tool,       \* name of the tool the host called
    args,       \* what the host passed for params: an object or a JSON string
    input,      \* the parameter set field validation received (parse_json_string applied)
    params,     \* the validated input model instance the handler received
    locals,     \* the handler's local variables that live across its awaits
    requests,   \* the upstream requests issued so far, in order
    inflight,   \* indices (into requests) of the requests not yet answered
    responses,  \* the upstream outcomes received so far, in order
    result,     \* what the host receives: nothing yet, a returned string, or a raised exception
    fn,         \* the helper function last applied on its own
    arg,        \* the argument it was applied to
    out,        \* what it returned or raised
    calls,      \* the invocations in flight together, one record per caller
    log         \* the lines the logger shared by all invocations has written, in order

\* the state of the invocation, and the record of a helper applied on its own
invocation == <<pc, tool, args, input, params, locals, requests, inflight, responses, result>>
applied == <<fn, arg, out>>
concurrent == <<calls, log>>

vars == <<invocation, applied, concurrent>>

----------------------------------------------------------------------------
\* JSON / Python values

Absent == [t |-> "absent"]
JNull == [t |-> "null"]
JStr(s) == [t |-> "str", v |-> s]
JInt(n) == [t |-> "int", v |-> n]
JList(xs) == [t |-> "list", v |-> xs]

\* d.get(k) is None both for a missing key and for an explicit null
IsNone(x) == x.t \in {"absent", "null"}

\* Python truthiness as used by `if x:` / `if not x:`
Truthy(x) ==
    CASE x.t = "str" -> Len(x.v) > 0
      [] x.t = "int" -> x.v # 0
      [] x.t = "list" -> Len(x.v) > 0
      [] OTHER -> FALSE

\* str(n) for an integer
IntStr(n) == ToString(n)

Whitespace == {" ", "\t", "\n"}

RECURSIVE LStrip(_)
LStrip(s) == IF s # <<>> /\ Head(s) \in Whitespace THEN LStrip(Tail(s)) ELSE s

RECURSIVE RStrip(_)
RStrip(s) ==
    IF s # <<>> /\ s[Len(s)] \in Whitespace THEN RStrip(SubSeq(s, 1, Len(s) - 1)) ELSE s

\* str.strip()
Strip(s) == RStrip(LStrip(s))

\* n characters
Rep(n) == [i \in 1..n |-> "x"]

\* t in s
HasSubstring(s, t) == \E i \in 1..(Len(s) - Len(t) + 1) : SubSeq(s, i, i + Len(t) - 1) = t

\* fragment f occurs in the string s
HasFragment(s, f) == \E i \in 1..Len(s) : s[i] = f

\* s has pat at index i
MatchAt(s, i, pat) ==
    /\ i + Len(pat) - 1 <= Len(s)
    /\ \A k \in 1..Len(pat) : s[i + k - 1] = pat[k]

----------------------------------------------------------------------------
\* Configuration (module level constants of the program)

JOBHISTORY_BASE_URL == <<"https", "://", "jobhistory.hellobike.cn", "/ws/v1/history">>
NODEMANAGER_PORT == <<"8052">>
\* float(os.getenv("REQUEST_TIMEOUT", "30.0")), as f"{REQUEST_TIMEOUT}" renders it
REQUEST_TIMEOUT == <<"30.0">>

----------------------------------------------------------------------------
\* Enumerations

ResponseFormat == {"markdown", "json"}
JobState == {"NEW", "INITED", "RUNNING", "SUCCEEDED", "FAILED", "KILL_WAIT", "KILLED", "ERROR"}
TaskType == {"m", "r"}
LogType == {"stdout", "stderr", "syslog", "syslog.shuffle", "prelaunch.out",
            "prelaunch.err", "container-localizer-syslog"}

Tools == {"jobhistory_get_info", "jobhistory_list_jobs", "jobhistory_get_job",
          "jobhistory_get_job_counters", "jobhistory_get_job_conf",
          "jobhistory_get_job_attempts", "jobhistory_list_tasks", "jobhistory_get_task",
          "jobhistory_get_task_counters", "jobhistory_list_task_attempts",
          "jobhistory_get_task_attempt", "jobhistory_get_task_attempt_counters",
          "jobhistory_get_task_attempt_logs", "jobhistory_get_task_attempt_logs_partial"}

LogTools == {"jobhistory_get_task_attempt_logs", "jobhistory_get_task_attempt_logs_partial"}

\* the fields of each tool's input model
HasJobId(tl) == tl \in Tools \ {"jobhistory_get_info", "jobhistory_list_jobs"}
HasTaskId(tl) == tl \in {"jobhistory_get_task", "jobhistory_get_task_counters",
                         "jobhistory_list_task_attempts", "jobhistory_get_task_attempt",
                         "jobhistory_get_task_attempt_counters"} \cup LogTools
HasAttemptId(tl) == tl \in {"jobhistory_get_task_attempt",
                            "jobhistory_get_task_attempt_counters"} \cup LogTools
HasFormat(tl) == tl \in Tools \ {"jobhistory_get_info"}

----------------------------------------------------------------------------
\* Input models (pydantic): field constraints and defaults

LimitDefault == 20
LimitMin == 1
LimitMax == 100
TimeMin == 0
IdMinLen == 1
JobIdMaxLen == 100
StartDefault == -4096
EndDefault == 0

\* every field of every input model; a tool's model uses some of them
NoInput ==
    [job_id |-> Absent, task_id |-> Absent, attempt_id |-> Absent,
     user |-> Absent, state |-> Absent, queue |-> Absent, limit |-> Absent,
     started_time_begin |-> Absent, started_time_end |-> Absent,
     finished_time_begin |-> Absent, finished_time_end |-> Absent,
     task_type |-> Absent, filter_key |-> Absent, log_type |-> Absent,
     start |-> Absent, end |-> Absent, response_format |-> Absent]

\* str field with str_strip_whitespace=True, required, min_length (and max_length; 0 = none)
ReqStrOk(x, maxLen) ==
    /\ x.t = "str"
    /\ Len(Strip(x.v)) >= IdMinLen
    /\ (maxLen > 0 => Len(Strip(x.v)) <= maxLen)

ReqStrVal(x) == JStr(Strip(x.v))

\* Optional[str] = None, stripped
OptStrOk(x) == x.t \in {"absent", "null", "str"}
OptStrVal(x) == IF x.t = "str" THEN JStr(Strip(x.v)) ELSE JNull

\* Optional[Enum] = None
OptEnumOk(x, enum) == IsNone(x) \/ (x.t = "str" /\ x.v \in enum)
OptEnumVal(x) == IF x.t = "str" THEN x ELSE JNull

\* Enum with a default: a missing key takes the default, null is not accepted
DefEnumOk(x, enum) == x.t = "absent" \/ (x.t = "str" /\ x.v \in enum)
DefEnumVal(x, default) == IF x.t = "absent" THEN JStr(default) ELSE x

\* the limit field without its le=100
LimitOkNoMax(x) == IsNone(x) \/ (x.t = "int" /\ x.v >= LimitMin)

\* limit: Optional[int] = Field(default=20, ge=1, le=100)
LimitOk(x) == IsNone(x) \/ (x.t = "int" /\ x.v >= LimitMin /\ x.v <= LimitMax)
LimitVal(x) == IF x.t = "absent" THEN JInt(LimitDefault) ELSE x

\* Optional[int] = Field(default=None, ge=0)
TimeOk(x) == IsNone(x) \/ (x.t = "int" /\ x.v >= TimeMin)
TimeVal(x) == IF x.t = "int" THEN x ELSE JNull

\* int with a default and no constraint
DefIntOk(x) == x.t \in {"absent", "int"}
DefIntVal(x, default) == IF x.t = "absent" THEN JInt(default) ELSE x


----------------------------------------------------------------------------
\* The input model classes

ListJobsInputOk(raw) ==
    /\ OptStrOk(raw.user)
    /\ OptEnumOk(raw.state, JobState)
    /\ OptStrOk(raw.queue)
    /\ LimitOk(raw.limit)
    /\ TimeOk(raw.started_time_begin)
    /\ TimeOk(raw.started_time_end)
    /\ TimeOk(raw.finished_time_begin)
    /\ TimeOk(raw.finished_time_end)
    /\ DefEnumOk(raw.response_format, ResponseFormat)

ListJobsInput(raw) ==
    [NoInput EXCEPT
        !.user = OptStrVal(raw.user),
        !.state = OptEnumVal(raw.state),
        !.queue = OptStrVal(raw.queue),
        !.limit = LimitVal(raw.limit),
        !.started_time_begin = TimeVal(raw.started_time_begin),
        !.started_time_end = TimeVal(raw.started_time_end),
        !.finished_time_begin = TimeVal(raw.finished_time_begin),
        !.finished_time_end = TimeVal(raw.finished_time_end),
        !.response_format = DefEnumVal(raw.response_format, "markdown")]

\* job_id: min_length=1, max_length=100; validate_job_id strips again
GetJobInputOk(raw) ==
    /\ ReqStrOk(raw.job_id, JobIdMaxLen)
    /\ DefEnumOk(raw.response_format, ResponseFormat)

GetJobInput(raw) ==
    [NoInput EXCEPT
        !.job_id = JStr(Strip(ReqStrVal(raw.job_id).v)),
        !.response_format = DefEnumVal(raw.response_format, "markdown")]

\* GetJobCountersInput, GetJobAttemptsInput: job_id (min_length=1), response_format
JobOnlyInputOk(raw) ==
    /\ ReqStrOk(raw.job_id, 0)
    /\ DefEnumOk(raw.response_format, ResponseFormat)

JobOnlyInput(raw) ==
    [NoInput EXCEPT
        !.job_id = ReqStrVal(raw.job_id),
        !.response_format = DefEnumVal(raw.response_format, "markdown")]

GetJobConfInputOk(raw) ==
    /\ JobOnlyInputOk(raw)
    /\ OptStrOk(raw.filter_key)

GetJobConfInput(raw) ==
    [JobOnlyInput(raw) EXCEPT !.filter_key = OptStrVal(raw.filter_key)]

ListTasksInputOk(raw) ==
    /\ JobOnlyInputOk(raw)
    /\ OptEnumOk(raw.task_type, TaskType)

ListTasksInput(raw) ==
    [JobOnlyInput(raw) EXCEPT !.task_type = OptEnumVal(raw.task_type)]

\* GetTaskInput, GetTaskCountersInput, ListTaskAttemptsInput
TaskInputOk(raw) ==
    /\ JobOnlyInputOk(raw)
    /\ ReqStrOk(raw.task_id, 0)

TaskInput(raw) ==
    [JobOnlyInput(raw) EXCEPT !.task_id = ReqStrVal(raw.task_id)]

\* GetTaskAttemptInput, GetTaskAttemptCountersInput
AttemptInputOk(raw) ==
    /\ TaskInputOk(raw)
    /\ ReqStrOk(raw.attempt_id, 0)

AttemptInput(raw) ==
    [TaskInput(raw) EXCEPT !.attempt_id = ReqStrVal(raw.attempt_id)]

GetTaskAttemptLogsInputOk(raw) ==
    /\ AttemptInputOk(raw)
    /\ DefEnumOk(raw.log_type, LogType)

GetTaskAttemptLogsInput(raw) ==
    [AttemptInput(raw) EXCEPT !.log_type = DefEnumVal(raw.log_type, "stdout")]

GetTaskAttemptLogsPartialInputOk(raw) ==
    /\ AttemptInputOk(raw)
    /\ DefEnumOk(raw.log_type, LogType)
    /\ DefIntOk(raw.start)
    /\ DefIntOk(raw.end)

GetTaskAttemptLogsPartialInput(raw) ==
    [AttemptInput(raw) EXCEPT
        !.log_type = DefEnumVal(raw.log_type, "syslog"),
        !.start = DefIntVal(raw.start, StartDefault),
        !.end = DefIntVal(raw.end, EndDefault)]

\* The framework validates the arguments against the handler's annotated input
\* model before it calls the handler (jobhistory_get_info takes no arguments).
InputOk(tl, raw) ==
    CASE tl = "jobhistory_get_info" -> TRUE
      [] tl = "jobhistory_list_jobs" -> ListJobsInputOk(raw)
      [] tl = "jobhistory_get_job" -> GetJobInputOk(raw)
      [] tl \in {"jobhistory_get_job_counters", "jobhistory_get_job_attempts"} ->
            JobOnlyInputOk(raw)
      [] tl = "jobhistory_get_job_conf" -> GetJobConfInputOk(raw)
      [] tl = "jobhistory_list_tasks" -> ListTasksInputOk(raw)
      [] tl \in {"jobhistory_get_task", "jobhistory_get_task_counters",
                 "jobhistory_list_task_attempts"} -> TaskInputOk(raw)
      [] tl \in {"jobhistory_get_task_attempt", "jobhistory_get_task_attempt_counters"} ->
            AttemptInputOk(raw)
      [] tl = "jobhistory_get_task_attempt_logs" -> GetTaskAttemptLogsInputOk(raw)
      [] tl = "jobhistory_get_task_attempt_logs_partial" ->
            GetTaskAttemptLogsPartialInputOk(raw)

InputModel(tl, raw) ==
    CASE tl = "jobhistory_get_info" -> NoInput
      [] tl = "jobhistory_list_jobs" -> ListJobsInput(raw)
      [] tl = "jobhistory_get_job" -> GetJobInput(raw)
      [] tl \in {"jobhistory_get_job_counters", "jobhistory_get_job_attempts"} ->
            JobOnlyInput(raw)
      [] tl = "jobhistory_get_job_conf" -> GetJobConfInput(raw)
      [] tl = "jobhistory_list_tasks" -> ListTasksInput(raw)
      [] tl \in {"jobhistory_get_task", "jobhistory_get_task_counters",
                 "jobhistory_list_task_attempts"} -> TaskInput(raw)
      [] tl \in {"jobhistory_get_task_attempt", "jobhistory_get_task_attempt_counters"} ->
            AttemptInput(raw)
      [] tl = "jobhistory_get_task_attempt_logs" -> GetTaskAttemptLogsInput(raw)
      [] tl = "jobhistory_get_task_attempt_logs_partial" ->
            GetTaskAttemptLogsPartialInput(raw)

----------------------------------------------------------------------------
\* BaseInput.parse_json_string: a parameter set that arrives as one JSON string

\* what the host passes for params: a structured object, or a string; a string
\* carries, for reference only, the parameter set it was serialized from
ObjectData(raw) == [form |-> "object", obj |-> raw, text |-> <<>>, encodes |-> TRUE]
StringData(raw, text) == [form |-> "string", obj |-> raw, text |-> text, encodes |-> TRUE]
NoData(text) == [form |-> "string", obj |-> NoInput, text |-> text, encodes |-> FALSE]

\* the keys in the order a client serializes them
FieldOrder ==
    <<"job_id", "task_id", "attempt_id", "user", "state", "queue", "limit",
      "started_time_begin", "started_time_end", "finished_time_begin",
      "finished_time_end", "task_type", "filter_key", "log_type", "start", "end",
      "response_format">>

\* the enum fields: their values are single fragments
EnumFields == {"state", "task_type", "log_type", "response_format"}

DigitChars == <<"0", "1", "2", "3", "4", "5", "6", "7", "8", "9">>
IsDigit(c) == \E d \in 1..10 : DigitChars[d] = c
DigitOf(c) == (CHOOSE d \in 1..10 : DigitChars[d] = c) - 1

\* the decimal digits of a natural number, one fragment per digit
RECURSIVE NatLit(_)
NatLit(n) ==
    IF n < 10 THEN <<DigitChars[n + 1]>>
    ELSE NatLit(n \div 10) \o <<DigitChars[(n % 10) + 1]>>

\* a JSON number literal
NumLit(n) == IF n < 0 THEN <<"-">> \o NatLit(-n) ELSE NatLit(n)

\* the body of a JSON string literal: quote and backslash escaped
RECURSIVE Escape(_)
Escape(s) ==
    IF \A i \in 1..Len(s) : s[i] \notin {"\"", "\\"} THEN s
    ELSE (IF Head(s) \in {"\"", "\\"} THEN <<"\\", Head(s)>> ELSE <<Head(s)>>)
             \o Escape(Tail(s))

StrLit(s) == <<"\"">> \o Escape(s) \o <<"\"">>

\* the JSON literal of one field value
ValueLit(f, x) ==
    CASE x.t = "null" -> <<"n", "u", "l", "l">>
      [] x.t = "int" -> NumLit(x.v)
      [] x.t = "str" -> StrLit(IF f \in EnumFields THEN <<x.v>> ELSE x.v)

\* json.dumps(P) as the client does it: the keys P holds, ", " and ": " between
RECURSIVE DumpsFrom(_, _, _)
DumpsFrom(raw, i, first) ==
    IF i > Len(FieldOrder) THEN <<>>
    ELSE IF raw[FieldOrder[i]].t = "absent" THEN DumpsFrom(raw, i + 1, first)
    ELSE (IF first THEN <<>> ELSE <<",", " ">>)
            \o StrLit(<<FieldOrder[i]>>) \o <<":", " ">>
            \o ValueLit(FieldOrder[i], raw[FieldOrder[i]])
            \o DumpsFrom(raw, i + 1, FALSE)

Dumps(raw) == <<"{">> \o DumpsFrom(raw, 1, TRUE) \o <<"}">>

\* tokens of a JSON text
Punct(c) == [k |-> "punct", c |-> c, s |-> <<>>, n |-> 0]
StrTok(s) == [k |-> "str", c |-> "", s |-> s, n |-> 0]
NumTok(n) == [k |-> "num", c |-> "", s |-> <<>>, n |-> n]
WordTok(w) == [k |-> w, c |-> "", s |-> <<>>, n |-> 0]
BadTok == WordTok("bad")

\* the number of backslashes that directly precede index j, counted from i on
RECURSIVE BackslashRun(_, _, _)
BackslashRun(s, i, j) ==
    IF j > i /\ s[j - 1] = "\\" THEN 1 + BackslashRun(s, i, j - 1) ELSE 0

\* the scan for the closing quote looks at this many characters at a time
ScanWindow == 16

\* index of the quote that closes the string literal whose body starts at i, 0 if
\* none: the first quote from index from on that no backslash escapes
RECURSIVE StrEndFrom(_, _, _)
StrEndFrom(s, i, from) ==
    IF from > Len(s) THEN 0
    ELSE LET upto == IF from + ScanWindow - 1 < Len(s) THEN from + ScanWindow - 1 ELSE Len(s)
             ends == {j \in from..upto : s[j] = "\"" /\ BackslashRun(s, i, j) % 2 = 0}
         IN IF ends = {} THEN StrEndFrom(s, i, upto + 1)
            ELSE CHOOSE j \in ends : \A m \in ends : j <= m

StrEnd(s, i) == StrEndFrom(s, i, i)

RECURSIVE Unescape(_)
Unescape(s) ==
    IF \A i \in 1..Len(s) : s[i] # "\\" THEN s
    ELSE IF Head(s) = "\\" /\ Len(s) >= 2 THEN <<s[2]>> \o Unescape(SubSeq(s, 3, Len(s)))
    ELSE <<Head(s)>> \o Unescape(Tail(s))

\* first index from i on that holds no digit
RECURSIVE NumEnd(_, _)
NumEnd(s, i) == IF i <= Len(s) /\ IsDigit(s[i]) THEN NumEnd(s, i + 1) ELSE i

\* the value of the digits s[i..j]
RECURSIVE DigitsValue(_, _, _)
DigitsValue(s, i, j) ==
    IF j < i THEN 0 ELSE 10 * DigitsValue(s, i, j - 1) + DigitOf(s[j])

\* the scanner of json.loads: whitespace skipped between tokens
RECURSIVE Lex(_, _)
Lex(s, i) ==
    IF i > Len(s) THEN <<>>
    ELSE IF s[i] \in Whitespace THEN Lex(s, i + 1)
    ELSE IF s[i] \in {"{", "}", ":", ","} THEN <<Punct(s[i])>> \o Lex(s, i + 1)
    ELSE IF s[i] = "\"" THEN
        LET j == StrEnd(s, i + 1)
        IN IF j = 0 THEN <<BadTok>>
           ELSE <<StrTok(Unescape(SubSeq(s, i + 1, j - 1)))>> \o Lex(s, j + 1)
    ELSE IF s[i] = "-" \/ IsDigit(s[i]) THEN
        LET b == IF s[i] = "-" THEN i + 1 ELSE i
            e == NumEnd(s, b)
        IN IF e = b \/ (e - b > 1 /\ s[b] = "0") THEN <<BadTok>>
           ELSE <<NumTok(IF s[i] = "-" THEN 0 - DigitsValue(s, b, e - 1)
                                        ELSE DigitsValue(s, b, e - 1))>> \o Lex(s, e)
    ELSE IF MatchAt(s, i, <<"n", "u", "l", "l">>) THEN <<WordTok("null")>> \o Lex(s, i + 4)
    ELSE IF MatchAt(s, i, <<"t", "r", "u", "e">>) THEN <<WordTok("bool")>> \o Lex(s, i + 4)
    ELSE IF MatchAt(s, i, <<"f", "a", "l", "s", "e">>) THEN
        <<WordTok("bool")>> \o Lex(s, i + 5)
    ELSE <<BadTok>>

IsScalarTok(t) == t.k \in {"str", "num", "null", "bool"}
IsPunct(t, c) == t.k = "punct" /\ t.c = c

\* the Python value of a scalar token under key f
TokValue(f, t) ==
    CASE t.k = "null" -> JNull
      [] t.k = "num" -> JInt(t.n)
      [] t.k = "str" -> IF f \in EnumFields /\ Len(t.s) = 1 THEN JStr(t.s[1]) ELSE JStr(t.s)
      [] OTHER -> [t |-> "bool"]

\* the members of an object from token i on: a later key overrides an earlier one,
\* a key no input model declares is carried by the dict and ignored by validation
RECURSIVE Members(_, _, _)
Members(toks, i, acc) ==
    IF i + 2 > Len(toks) THEN [ok |-> FALSE, obj |-> NoInput]
    ELSE IF ~(toks[i].k = "str" /\ IsPunct(toks[i + 1], ":") /\ IsScalarTok(toks[i + 2]))
    THEN [ok |-> FALSE, obj |-> NoInput]
    ELSE LET key == IF Len(toks[i].s) = 1 THEN toks[i].s[1] ELSE ""
             got == IF key \in DOMAIN NoInput
                    THEN [acc EXCEPT ![key] = TokValue(key, toks[i + 2])]
                    ELSE acc
         IN IF i + 3 = Len(toks) /\ IsPunct(toks[i + 3], "}") THEN [ok |-> TRUE, obj |-> got]
            ELSE IF i + 3 < Len(toks) /\ IsPunct(toks[i + 3], ",")
            THEN Members(toks, i + 4, got)
            ELSE [ok |-> FALSE, obj |-> NoInput]

\* json.loads(text): a dict of scalars, another JSON value, or JSONDecodeError.
\* Arrays and nested objects are not read: no input model has a field of such a
\* type, and they are no part of the texts passed here.
Loads(text) ==
    LET toks == Lex(text, 1)
    IN IF toks = <<>> \/ (\E i \in 1..Len(toks) : toks[i].k = "bad")
       THEN [kind |-> "error", obj |-> NoInput]
       ELSE IF Len(toks) = 1 /\ IsScalarTok(toks[1]) THEN [kind |-> "scalar", obj |-> NoInput]
       ELSE IF Len(toks) = 2 /\ IsPunct(toks[1], "{") /\ IsPunct(toks[2], "}")
       THEN [kind |-> "dict", obj |-> NoInput]
       ELSE IF Len(toks) >= 5 /\ IsPunct(toks[1], "{") /\ Members(toks, 2, NoInput).ok
       THEN [kind |-> "dict", obj |-> Members(toks, 2, NoInput).obj]
       ELSE [kind |-> "error", obj |-> NoInput]

\* the validator that never parses
ParseJsonStringNever(data) ==
    IF data.form = "string" THEN [kind |-> "str", obj |-> NoInput]
    ELSE [kind |-> "dict", obj |-> data.obj]

\* parse_json_string(cls, data): what field validation receives
parse_json_string(data) ==
    IF data.form = "string" THEN
        LET parsed == Loads(data.text)
        IN IF parsed.kind = "error" THEN [kind |-> "str", obj |-> NoInput]
           ELSE parsed
    ELSE [kind |-> "dict", obj |-> data.obj]

----------------------------------------------------------------------------
\* Exceptions and strings handed back

\* an exception object: its class, the status code of an HTTPStatusError, str(e)
Exc(cls, code, text) == [cls |-> cls, code |-> code, text |-> text]

\* classes that are instances of httpx.TimeoutException / httpx.ConnectError
\* an isinstance test that knows connect timeouts only
TimeoutClassesConnectOnly == {"ConnectTimeout"}
TimeoutClasses == {"ReadTimeout", "ConnectTimeout"}
ConnectClasses == {"ConnectError"}

\* The program's message literals are Chinese; the module language is ASCII, so
\* each literal is written as its English gloss, fragment by fragment.
\* a Python str handed back: how it was produced (json.dumps gives "json", every
\* f-string / join gives "text"), the template it came from, its fragments,
\* and the data rendered into it
Str(enc, tag, toks, doc) == [enc |-> enc, tag |-> tag, toks |-> toks, doc |-> doc]

NoDoc == [n |-> 0, items |-> <<>>]

ErrStr(tag, toks) == Str("text", tag, toks, NoDoc)

\* a status message without its 503 branch
StatusMessageNo503(status_code) ==
    CASE status_code = 404 ->
            ErrStr("http_404", <<"Error: resource ", "not found", ". Check the ID, or the job/task may have been cleaned up.">>)
      [] status_code = 403 ->
            ErrStr("http_403", <<"Error: ", "insufficient permission", ", cannot access the resource. Check the access configuration.">>)
      [] status_code = 401 ->
            ErrStr("http_401", <<"Error: ", "authentication failed", ". If security mode is on, check the authentication configuration.">>)
      [] status_code = 500 ->
            ErrStr("http_500", <<"Error: ", "server internal error", ". Check the JobHistory Server log.">>)
      [] OTHER ->
            ErrStr("http_other", <<"Error: API request failed, HTTP status code ", IntStr(status_code), ".">>)

\* the message of an HTTPStatusError, chosen by e.response.status_code
StatusMessage(status_code) ==
    CASE status_code = 404 ->
            ErrStr("http_404", <<"Error: resource ", "not found", ". Check the ID, or the job/task may have been cleaned up.">>)
      [] status_code = 403 ->
            ErrStr("http_403", <<"Error: ", "insufficient permission", ", cannot access the resource. Check the access configuration.">>)
      [] status_code = 401 ->
            ErrStr("http_401", <<"Error: ", "authentication failed", ". If security mode is on, check the authentication configuration.">>)
      [] status_code = 500 ->
            ErrStr("http_500", <<"Error: ", "server internal error", ". Check the JobHistory Server log.">>)
      [] status_code = 503 ->
            ErrStr("http_503", <<"Error: ", "service temporarily unavailable", ". JobHistory Server may be starting or overloaded.">>)
      [] OTHER ->
            ErrStr("http_other", <<"Error: API request failed, HTTP status code ", IntStr(status_code), ".">>)

_handle_error(e) ==
    IF e.cls = "HTTPStatusError" THEN StatusMessage(e.code)
    ELSE IF e.cls \in TimeoutClasses THEN
        ErrStr("timeout", <<"Error: request timed out (">> \o REQUEST_TIMEOUT
                              \o <<" seconds). Check the network connection or raise the timeout.">>)
    ELSE IF e.cls \in ConnectClasses THEN
        ErrStr("connect", <<"Error: cannot connect to JobHistory Server (">> \o JOBHISTORY_BASE_URL
                              \o <<"). Check: 1. the service is started 2. address and port are right 3. the network is reachable">>)
    ELSE
        ErrStr("exception", <<"Error: ", e.cls, " - ">> \o e.text)


----------------------------------------------------------------------------
\* Upstream outcomes, as httpx reports them

\* what one GET can end in: a transport failure of class cls, or a response with
\* a status code and a body
Failed(cls) == [kind |-> "fail", cls |-> cls, status |-> 0, body |-> [shape |-> "none"]]
Response(status, body) == [kind |-> "response", cls |-> "", status |-> status, body |-> body]

\* response.raise_for_status(): every status outside 2xx raises HTTPStatusError
IsSuccess(status) == status >= 200 /\ status <= 299

\* what a call of an upstream helper gives its caller: a value or an exception
Returned(v) == [raised |-> FALSE, value |-> v, exc |-> Exc("", 0, <<>>)]
Raised(e) == [raised |-> TRUE, value |-> [shape |-> "none"], exc |-> e]

\* _make_request: the except clauses log and re-raise; response.json() raises
\* JSONDecodeError for a body that is not JSON
_make_request(o) ==
    IF o.kind = "fail" THEN Raised(Exc(o.cls, 0, <<"transport failure">>))
    ELSE IF ~IsSuccess(o.status) THEN Raised(Exc("HTTPStatusError", o.status, <<"status">>))
    ELSE IF o.body.shape = "notjson" THEN
        Raised(Exc("JSONDecodeError", 0, <<"Expecting value: line 1 column 1 (char 0)">>))
    ELSE Returned(o.body)

\* _fetch_logs_html: the same, but response.text is returned unparsed
_fetch_logs_html(o) ==
    IF o.kind = "fail" THEN Raised(Exc(o.cls, 0, <<"transport failure">>))
    ELSE IF ~IsSuccess(o.status) THEN Raised(Exc("HTTPStatusError", o.status, <<"status">>))
    ELSE Returned(o.body)

----------------------------------------------------------------------------
\* Helpers of the log handlers

\* urlparse(JOBHISTORY_BASE_URL): scheme and netloc are the first and third fragment
_get_logs_base_url ==
    <<JOBHISTORY_BASE_URL[1], "://", JOBHISTORY_BASE_URL[3], "/jobhistory/logs">>

LOGS_BASE_URL == _get_logs_base_url

\* index of the last ":" of s, 0 when there is none
RECURSIVE LastColon(_, _)
LastColon(s, i) == IF i = 0 THEN 0 ELSE IF s[i] = ":" THEN i ELSE LastColon(s, i - 1)

\* index of the first ":" of s from i on, 0 when there is none
RECURSIVE FirstColon(_, _)
FirstColon(s, i) ==
    IF i > Len(s) THEN 0 ELSE IF s[i] = ":" THEN i ELSE FirstColon(s, i + 1)

\* the address cut at its first colon
ExtractHostnameFirstColon(node_http_address) ==
    IF FirstColon(node_http_address, 1) = 0 THEN node_http_address
    ELSE SubSeq(node_http_address, 1, FirstColon(node_http_address, 1) - 1)

\* node_http_address.rsplit(':', 1)[0] when it holds a colon, else the address
_extract_hostname(node_http_address) ==
    IF \E i \in 1..Len(node_http_address) : node_http_address[i] = ":"
    THEN SubSeq(node_http_address, 1, LastColon(node_http_address, Len(node_http_address)) - 1)
    ELSE node_http_address

Lower(c) ==
    CASE c = "P" -> "p" [] c = "R" -> "r" [] c = "E" -> "e" [] OTHER -> c

\* s has pat (lower case) at index i, compared case-insensitively
MatchAtI(s, i, pat) ==
    /\ i + Len(pat) - 1 <= Len(s)
    /\ \A k \in 1..Len(pat) : Lower(s[i + k - 1]) = pat[k]

PreOpen == <<"<", "p", "r", "e">>
PreClose == <<"<", "/", "p", "r", "e", ">">>

\* least j >= i with s[j] = ">", 0 when there is none ([^>]* then ">")
RECURSIVE TagEnd(_, _)
TagEnd(s, i) == IF i > Len(s) THEN 0 ELSE IF s[i] = ">" THEN i ELSE TagEnd(s, i + 1)

\* greatest j >= i where "</pre>" starts, 0 when there is none (a greedy .*)
CloseAtLast(s, i) ==
    LET starts == {j \in i..Len(s) : MatchAtI(s, j, PreClose)}
    IN IF starts = {} THEN 0 ELSE CHOOSE j \in starts : \A k \in starts : k <= j

\* least j >= i where "</pre>" starts, 0 when there is none (the lazy .*?)
RECURSIVE CloseAt(_, _)
CloseAt(s, i) ==
    IF i > Len(s) THEN 0 ELSE IF MatchAtI(s, i, PreClose) THEN i ELSE CloseAt(s, i + 1)

\* re.search(r'<pre[^>]*>(.*?)</pre>', html, DOTALL | IGNORECASE): group 1 of the
\* leftmost match as <<found, content>>
RECURSIVE PreSearch(_, _)
PreSearch(s, i) ==
    IF i > Len(s) THEN [found |-> FALSE, content |-> <<>>]
    ELSE IF MatchAtI(s, i, PreOpen) /\ TagEnd(s, i + Len(PreOpen)) # 0
            /\ CloseAt(s, TagEnd(s, i + Len(PreOpen)) + 1) # 0
         THEN [found |-> TRUE,
               content |-> SubSeq(s, TagEnd(s, i + Len(PreOpen)) + 1,
                                  CloseAt(s, TagEnd(s, i + Len(PreOpen)) + 1) - 1)]
         ELSE PreSearch(s, i + 1)

\* str.replace(pat, rep): every non-overlapping occurrence, left to right
RECURSIVE Replace(_, _, _)
Replace(s, pat, rep) ==
    IF s = <<>> THEN <<>>
    ELSE IF MatchAt(s, 1, pat) THEN rep \o Replace(SubSeq(s, Len(pat) + 1, Len(s)), pat, rep)
    ELSE <<Head(s)>> \o Replace(Tail(s), pat, rep)

_extract_pre_content(html) ==
    LET m == PreSearch(html, 1)
        c1 == Replace(m.content, <<"&", "l", "t", ";">>, <<"<">>)
        c2 == Replace(c1, <<"&", "g", "t", ";">>, <<">">>)
        c3 == Replace(c2, <<"&", "a", "m", "p", ";">>, <<"&">>)
        c4 == Replace(c3, <<"&", "q", "u", "o", "t", ";">>, <<"\"">>)
        c5 == Replace(c4, <<"&", "#", "3", "9", ";">>, <<"'">>)
        c6 == Replace(c5, <<"&", "n", "b", "s", "p", ";">>, <<" ">>)
    IN IF m.found THEN Strip(c6) ELSE <<>>


----------------------------------------------------------------------------
\* What a handler does between two suspension points

Req(via, url, query) == [via |-> via, url |-> url, query |-> query]

NoLocals ==
    [stage |-> "first", container_id |-> JNull, node_http_address |-> JNull,
     user |-> JNull, node_manager |-> <<>>, log_url |-> <<>>]

NoStr == Str("none", "none", <<>>, NoDoc)
NoExc == Exc("", 0, <<>>)

\* the handler returns s / an exception leaves the statement that raised it /
\* the handler awaits the upstream requests reqs with its locals loc
Return(s) == [act |-> "return", str |-> s, exc |-> NoExc, reqs |-> <<>>, loc |-> NoLocals]
Raise(e) == [act |-> "raise", str |-> NoStr, exc |-> e, reqs |-> <<>>, loc |-> NoLocals]
Await(reqs, loc) == [act |-> "await", str |-> NoStr, exc |-> NoExc, reqs |-> reqs, loc |-> loc]

AttributeError == Exc("AttributeError", 0, <<"object has no attribute 'get'">>)
TypeError == Exc("TypeError", 0, <<"argument of type 'int' is not iterable">>)

\* d.get(key, default): the default only for a missing key
Get(x, default) == IF x.t = "absent" THEN default ELSE x

NA == JStr(<<"N/A">>)

IsJson(p) == p.response_format.v = "json"

\* one query parameter, added under `if value:`
QP(name, x) == IF Truthy(x) THEN <<[k |-> name, v |-> x]>> ELSE <<>>

\* the query without the limit parameter
ListJobsQueryNoLimit(p) ==
    QP("user", p.user) \o QP("state", p.state) \o QP("queue", p.queue)
        \o QP("startedTimeBegin", p.started_time_begin)
        \o QP("startedTimeEnd", p.started_time_end)
        \o QP("finishedTimeBegin", p.finished_time_begin)
        \o QP("finishedTimeEnd", p.finished_time_end)

\* the query parameters jobhistory_list_jobs builds
ListJobsQuery(p) ==
    QP("user", p.user) \o QP("state", p.state) \o QP("queue", p.queue)
        \o QP("limit", p.limit)
        \o QP("startedTimeBegin", p.started_time_begin)
        \o QP("startedTimeEnd", p.started_time_end)
        \o QP("finishedTimeBegin", p.finished_time_begin)
        \o QP("finishedTimeEnd", p.finished_time_end)

\* the query parameters jobhistory_list_tasks builds
ListTasksQuery(p) == QP("type", p.task_type)

JobPath(p) == <<"mapreduce/jobs/">> \o p.job_id.v
TaskPath(p) == JobPath(p) \o <<"/tasks/">> \o p.task_id.v
AttemptPath(p) == TaskPath(p) \o <<"/attempts/">> \o p.attempt_id.v

\* url = f"{JOBHISTORY_BASE_URL}/{endpoint}"
Rest(endpoint, query) == Req("_make_request", JOBHISTORY_BASE_URL \o <<"/">> \o endpoint, query)

\* the first upstream request of each handler
FirstRequest(tl, p) ==
    CASE tl = "jobhistory_get_info" -> Rest(<<"info">>, <<>>)
      [] tl = "jobhistory_list_jobs" -> Rest(<<"mapreduce/jobs">>, ListJobsQuery(p))
      [] tl = "jobhistory_get_job" -> Rest(JobPath(p), <<>>)
      [] tl = "jobhistory_get_job_counters" -> Rest(JobPath(p) \o <<"/counters">>, <<>>)
      [] tl = "jobhistory_get_job_conf" -> Rest(JobPath(p) \o <<"/conf">>, <<>>)
      [] tl = "jobhistory_get_job_attempts" -> Rest(JobPath(p) \o <<"/jobattempts">>, <<>>)
      [] tl = "jobhistory_list_tasks" -> Rest(JobPath(p) \o <<"/tasks">>, ListTasksQuery(p))
      [] tl = "jobhistory_get_task" -> Rest(TaskPath(p), <<>>)
      [] tl = "jobhistory_get_task_counters" -> Rest(TaskPath(p) \o <<"/counters">>, <<>>)
      [] tl = "jobhistory_list_task_attempts" -> Rest(TaskPath(p) \o <<"/attempts">>, <<>>)
      [] tl = "jobhistory_get_task_attempt" -> Rest(AttemptPath(p), <<>>)
      [] tl = "jobhistory_get_task_attempt_counters" ->
            Rest(AttemptPath(p) \o <<"/counters">>, <<>>)
      [] tl \in LogTools -> Rest(AttemptPath(p), <<>>)

\* the handler up to its first await
Begin(tl, p) == Await(<<FirstRequest(tl, p)>>, NoLocals)

----------------------------------------------------------------------------
\* Renderings.  A rendering keeps the data the claims speak about: the announced
\* count n and the rendered items; the table decoration is left out.

\* state -> icon of the job handlers
JobStateIcon(state) ==
    IF state.t # "str" THEN "question"
    ELSE CASE state.v = <<"SUCCEEDED">> -> "check"
           [] state.v = <<"FAILED">> -> "cross"
           [] state.v = <<"KILLED">> -> "warning"
           [] state.v = <<"RUNNING">> -> "cycle"
           [] OTHER -> "question"

\* state -> icon of jobhistory_get_task: a dict literal of its own, same entries
TaskStateIcon(state) ==
    IF state.t # "str" THEN "question"
    ELSE CASE state.v = <<"SUCCEEDED">> -> "check"
           [] state.v = <<"FAILED">> -> "cross"
           [] state.v = <<"KILLED">> -> "warning"
           [] state.v = <<"RUNNING">> -> "cycle"
           [] OTHER -> "question"

\* state -> icon of the task attempt handlers (no RUNNING entry)
AttemptStateIcon(state) ==
    IF state.t # "str" THEN "question"
    ELSE CASE state.v = <<"SUCCEEDED">> -> "check"
           [] state.v = <<"FAILED">> -> "cross"
           [] state.v = <<"KILLED">> -> "warning"
           [] OTHER -> "question"

JobRow(job) ==
    [icon |-> JobStateIcon(Get(job.state, NA)), id |-> Get(job.id, NA),
     state |-> Get(job.state, NA)]

\* a rendering that stops after the first job
JobsMarkdownFirstOnly(jobs) ==
    Str("text", "jobs_md", <<"# MapReduce job list">>,
        [n |-> Len(jobs), items |-> <<JobRow(jobs[1])>>])

\* the header with len(jobs) and one block per job
JobsMarkdown(jobs) ==
    Str("text", "jobs_md", <<"# MapReduce job list">>,
        [n |-> Len(jobs), items |-> [i \in 1..Len(jobs) |-> JobRow(jobs[i])]])

\* json.dumps({"total": len(xs), <key>: xs})
ListJson(tag, xs) == Str("json", tag, <<>>, [n |-> Len(xs), items |-> xs])

\* json.dumps(entity)
EntityJson(tag, ent) == Str("json", tag, <<>>, [n |-> 1, items |-> <<ent>>])

EntityMarkdown(tag, title, ent) == Str("text", tag, title, [n |-> 1, items |-> <<ent>>])

\* the markdown of a job, a task or a task attempt: the title starts with the icon
\* of entity.get('state', 'N/A')
DetailMarkdown(tag, ent) ==
    LET state == Get(ent.state, NA)
        state_icon == CASE tag = "job" -> JobStateIcon(state)
                        [] tag = "task" -> TaskStateIcon(state)
                        [] tag = "task_attempt" -> AttemptStateIcon(state)
    IN Str("text", tag, <<"# ", tag>>, [n |-> 1, items |-> <<ent>>, icons |-> <<state_icon>>])

Text(tag, toks) == Str("text", tag, toks, [n |-> 0, items |-> <<>>])

\* the innermost entity when the upstream sent a JSON string in its place
StrEntity == <<"a", "b", "c">>

\* handlers around one entity: json.dumps(entity) in json mode, else the markdown
\* rendering, whose entity.get(...) raises on a string
EntityResult(tag, p, data) ==
    IF data.shape = "nonobject" THEN Raise(AttributeError)
    ELSE IF IsJson(p) THEN
        Return(EntityJson(tag, IF data.shape = "strentity" THEN StrEntity ELSE data.ent))
    ELSE IF data.shape = "strentity" THEN Raise(AttributeError)
    ELSE IF tag \in {"job", "task", "task_attempt"} THEN Return(DetailMarkdown(tag, data.ent))
    ELSE Return(EntityMarkdown(tag, <<"# ", tag>>, data.ent))

\* str.lower() on the letters of the samples
LowerChar(c) ==
    CASE c = "M" -> "m" [] c = "A" -> "a" [] c = "P" -> "p" [] c = "Y" -> "y" [] OTHER -> c

lower(s) == [i \in 1..Len(s) |-> LowerChar(s[i])]

\* p.get('name', '')
PropName(prop) == Get(prop.name, JStr(<<>>)).v

\* name.split('.')[0] if '.' in name else 'other'
Prefix(name) ==
    IF \E i \in 1..Len(name) : name[i] = "."
    THEN SubSeq(name, 1, (CHOOSE i \in 1..Len(name) :
                             name[i] = "." /\ \A k \in 1..(i - 1) : name[k] # ".") - 1)
    ELSE <<"o", "t", "h", "e", "r">>

\* the properties after the filter: filter_lower in p.get('name', '').lower()
Filtered(properties, filter_key) ==
    IF Truthy(filter_key)
    THEN SelectSeq(properties,
                   LAMBDA prop : HasSubstring(lower(PropName(prop)), lower(filter_key.v)))
    ELSE properties

\* the markdown of the configuration: the count of the filtered properties and
\* one section per prefix, each with its properties in their order
ConfMarkdown(p, properties) ==
    LET shown == Filtered(properties, p.filter_key)
        prefixes == {Prefix(PropName(shown[i])) : i \in 1..Len(shown)}
    IN Str("text", "job_conf", <<"# job_conf">>,
           [n |-> Len(shown), items |-> shown, props |-> shown,
            groups |-> [pre \in prefixes |->
                           SelectSeq(shown, LAMBDA prop : Prefix(PropName(prop)) = pre)]])

\* jobhistory_get_job_conf: json.dumps(conf) before the filter is looked at
ConfResult(p, data) ==
    IF data.shape = "nonobject" THEN Raise(AttributeError)
    ELSE IF IsJson(p) THEN
        IF data.shape = "strentity" THEN Return(EntityJson("job_conf", StrEntity))
        ELSE Return(Str("json", "job_conf", <<>>,
                        [n |-> 1, items |-> <<[property |-> JList(data.list)]>>,
                         props |-> data.list]))
    ELSE IF data.shape = "strentity" THEN Raise(AttributeError)
    ELSE Return(ConfMarkdown(p, data.list))

\* jobhistory_get_info: markdown only
InfoResult(data) ==
    IF data.shape \in {"nonobject", "strentity"} THEN Raise(AttributeError)
    ELSE Return(EntityMarkdown("info_md", <<"# JobHistory Server info">>, data.ent))

\* jobhistory_list_jobs after _make_request returned data
ListJobsResult(p, data) ==
    IF data.shape = "nonobject" THEN Raise(AttributeError)
    ELSE IF data.shape = "strentity" THEN
        IF IsJson(p) THEN Return(ListJson("jobs_json", StrEntity)) ELSE Raise(AttributeError)
    ELSE IF data.list = <<>> THEN Return(Text("no_jobs", <<"No matching jobs found.">>))
    ELSE IF IsJson(p) THEN Return(ListJson("jobs_json", data.list))
    ELSE Return(JobsMarkdown(data.list))

\* the handlers that test the format before the emptiness of the list:
\* jobhistory_get_job_attempts, jobhistory_list_tasks, jobhistory_list_task_attempts
ListResult(tag, p, data) ==
    IF data.shape = "nonobject" THEN Raise(AttributeError)
    ELSE IF data.shape = "strentity" THEN
        IF IsJson(p) THEN Return(ListJson(tag, StrEntity)) ELSE Raise(AttributeError)
    ELSE IF IsJson(p) THEN Return(ListJson(tag, data.list))
    ELSE IF data.list = <<>> THEN Return(Text("no_items", <<"Nothing found.">>))
    ELSE Return(Str("text", tag, <<"# list">>,
                    [n |-> Len(data.list), items |-> data.list,
                     icons |-> IF tag = "task_attempts"
                               THEN [i \in 1..Len(data.list) |->
                                        AttemptStateIcon(Get(data.list[i].state, NA))]
                               ELSE <<>>]))


\* jobhistory_list_tasks: the markdown rendering has one section per task type
TaskRows(tasks, type) ==
    SelectSeq(tasks, LAMBDA t : t.type.t = "str" /\ t.type.v = <<type>>)

ListTasksResult(p, data) ==
    IF data.shape = "nonobject" THEN Raise(AttributeError)
    ELSE IF data.shape = "strentity" THEN
        IF IsJson(p) THEN Return(ListJson("tasks_json", StrEntity)) ELSE Raise(AttributeError)
    ELSE IF IsJson(p) THEN Return(ListJson("tasks_json", data.list))
    ELSE IF data.list = <<>> THEN Return(Text("no_tasks", <<"No tasks found.">>))
    ELSE Return(Str("text", "tasks_md", <<"# Task list: ">> \o p.job_id.v,
                    [n |-> Len(data.list), items |-> data.list,
                     map |-> TaskRows(data.list, "MAP"),
                     reduce |-> TaskRows(data.list, "REDUCE")]))

----------------------------------------------------------------------------
\* The two log handlers

\* how an f-string renders a value
FStr(x) == IF x.t = "str" THEN x.v ELSE IF x.t = "int" THEN <<IntStr(x.v)>> ELSE <<"None">>

Abs(n) == IF n < 0 THEN -n ELSE n

\* the query string with a negative start raised to 0
LogQueryClamped(tl, p) ==
    IF tl = "jobhistory_get_task_attempt_logs"
    THEN <<"?start=0&start.time=0&end.time=9223372036854775807">>
    ELSE <<"?start=", IntStr(IF p.start.v < 0 THEN 0 ELSE p.start.v), "&end=", IntStr(p.end.v)>>

\* the query string of the log URL
LogQuery(tl, p) ==
    IF tl = "jobhistory_get_task_attempt_logs"
    THEN <<"?start=0&start.time=0&end.time=9223372036854775807">>
    ELSE <<"?start=", IntStr(p.start.v), "&end=", IntStr(p.end.v)>>

LogUrl(tl, p, node_manager, container_id, user) ==
    LOGS_BASE_URL \o <<"/">> \o node_manager \o <<"/">> \o FStr(container_id) \o <<"/">>
        \o p.attempt_id.v \o <<"/">> \o FStr(user) \o <<"/", p.log_type.v, "/">>
        \o LogQuery(tl, p)

\* range_desc with the end tested before the sign of the start
RangeDescEndFirst(p) ==
    IF p.end.v = 0 THEN <<"from ", IntStr(p.start.v), " bytes to the end">>
    ELSE IF p.start.v < 0 THEN <<"last ", IntStr(Abs(p.start.v)), " bytes">>
    ELSE <<IntStr(p.start.v), " - ", IntStr(p.end.v), " bytes">>

\* range_desc of the partial handler
RangeDesc(p) ==
    IF p.start.v < 0 THEN <<"last ", IntStr(Abs(p.start.v)), " bytes">>
    ELSE IF p.end.v = 0 THEN <<"from ", IntStr(p.start.v), " bytes to the end">>
    ELSE <<IntStr(p.start.v), " - ", IntStr(p.end.v), " bytes">>

NoContainerMsg == Text("no_container", <<"Error: cannot get the container ID. Check attempt_id.">>)
NoNodeMsg == Text("no_node", <<"Error: cannot get the node address. Check attempt_id.">>)
NoUserMsg == Text("no_user", <<"Error: cannot get the job user. Check job_id.">>)

\* the node address used as it is, port included
NodeManagerKeepsPort(node_http_address) == node_http_address

\* node_manager = f"{hostname}:{NODEMANAGER_PORT}"
NodeManager(node_http_address) ==
    _extract_hostname(node_http_address) \o <<":">> \o NODEMANAGER_PORT

\* step 1 without the test of the node address
LogAfterAttemptNoNodeCheck(tl, p, loc, data) ==
    IF data.shape \in {"nonobject", "strentity"} THEN Raise(AttributeError)
    ELSE IF ~Truthy(data.ent.assignedContainerId) THEN Return(NoContainerMsg)
    ELSE Await(<<Rest(JobPath(p), <<>>)>>,
               [loc EXCEPT !.stage = "job",
                           !.container_id = data.ent.assignedContainerId,
                           !.node_http_address = data.ent.nodeHttpAddress])

\* step 1 with the node address tested before the container id
LogAfterAttemptNodeFirst(tl, p, loc, data) ==
    IF data.shape \in {"nonobject", "strentity"} THEN Raise(AttributeError)
    ELSE IF ~Truthy(data.ent.nodeHttpAddress) THEN Return(NoNodeMsg)
    ELSE IF ~Truthy(data.ent.assignedContainerId) THEN Return(NoContainerMsg)
    ELSE Await(<<Rest(JobPath(p), <<>>)>>,
               [loc EXCEPT !.stage = "job",
                           !.container_id = data.ent.assignedContainerId,
                           !.node_http_address = data.ent.nodeHttpAddress])

\* step 1: the task attempt detail arrived
LogAfterAttempt(tl, p, loc, data) ==
    IF data.shape \in {"nonobject", "strentity"} THEN Raise(AttributeError)
    ELSE IF ~Truthy(data.ent.assignedContainerId) THEN Return(NoContainerMsg)
    ELSE IF ~Truthy(data.ent.nodeHttpAddress) THEN Return(NoNodeMsg)
    ELSE Await(<<Rest(JobPath(p), <<>>)>>,
               [loc EXCEPT !.stage = "job",
                           !.container_id = data.ent.assignedContainerId,
                           !.node_http_address = data.ent.nodeHttpAddress])

\* steps 2 to 4 without the test of the user
LogAfterJobNoUserCheck(tl, p, loc, data) ==
    IF data.shape \in {"nonobject", "strentity"} THEN Raise(AttributeError)
    ELSE IF loc.node_http_address.t # "str" THEN Raise(TypeError)
    ELSE LET node_manager == NodeManager(loc.node_http_address.v)
             log_url == LogUrl(tl, p, node_manager, loc.container_id, data.ent.user)
         IN Await(<<Req("_fetch_logs_html", log_url, <<>>)>>,
                  [loc EXCEPT !.stage = "page", !.user = data.ent.user,
                              !.node_manager = node_manager, !.log_url = log_url])

\* steps 2 to 4: the job detail arrived; the log URL is built
LogAfterJob(tl, p, loc, data) ==
    IF data.shape \in {"nonobject", "strentity"} THEN Raise(AttributeError)
    ELSE IF ~Truthy(data.ent.user) THEN Return(NoUserMsg)
    ELSE IF loc.node_http_address.t # "str" THEN Raise(TypeError)
    ELSE LET node_manager == NodeManager(loc.node_http_address.v)
             log_url == LogUrl(tl, p, node_manager, loc.container_id, data.ent.user)
         IN Await(<<Req("_fetch_logs_html", log_url, <<>>)>>,
                  [loc EXCEPT !.stage = "page", !.user = data.ent.user,
                              !.node_manager = node_manager, !.log_url = log_url])

\* the rows and keys both renderings of both handlers carry
LogInfo(p, loc, log_content) ==
    [job_id |-> p.job_id.v, task_id |-> p.task_id.v,
     attempt_id |-> p.attempt_id.v, container_id |-> loc.container_id,
     node_manager |-> loc.node_manager, user |-> loc.user,
     log_type |-> p.log_type.v, content |-> log_content]

\* the keys of the JSON object: log_url, and for the partial handler byte_range
\* (start, end, description) and content_length
LogJsonFields(tl, p, loc, log_content) ==
    IF tl = "jobhistory_get_task_attempt_logs"
    THEN [log_url |-> loc.log_url] @@ LogInfo(p, loc, log_content)
    ELSE [log_url |-> loc.log_url, start |-> p.start.v, end |-> p.end.v,
          description |-> RangeDesc(p), content_length |-> Len(log_content)]
             @@ LogInfo(p, loc, log_content)

\* the rows of the markdown table: for the partial handler the range row holds
\* range_desc and the length row len(log_content)
LogMarkdownFields(tl, p, loc, log_content) ==
    IF tl = "jobhistory_get_task_attempt_logs"
    THEN LogInfo(p, loc, log_content)
    ELSE [description |-> RangeDesc(p), content_length |-> Len(log_content)]
             @@ LogInfo(p, loc, log_content)

\* steps 6 and 7 with the format tested before the emptiness of the log
LogAfterPageFormatFirst(tl, p, loc, page) ==
    LET log_content == _extract_pre_content(page.text)
    IN IF IsJson(p) THEN
           Return(Str("json", "logs_json", <<>>,
                      [n |-> 1, items |-> <<LogJsonFields(tl, p, loc, log_content)>>]))
       ELSE IF log_content = <<>> THEN
           Return(Text("no_log", <<"Log is empty or cannot be parsed. Log URL: ">>
                                    \o loc.log_url))
       ELSE Return(Str("text", "logs_md", <<"# Task attempt log: ", p.log_type.v>>,
                       [n |-> 1, items |-> <<LogMarkdownFields(tl, p, loc, log_content)>>]))

\* steps 6 and 7: the log page arrived
LogAfterPage(tl, p, loc, page) ==
    LET log_content == _extract_pre_content(page.text)
    IN IF log_content = <<>> THEN
           Return(Text("no_log", <<"Log is empty or cannot be parsed. Log URL: ">>
                                    \o loc.log_url))
       ELSE IF IsJson(p) THEN
           Return(Str("json", "logs_json", <<>>,
                      [n |-> 1, items |-> <<LogJsonFields(tl, p, loc, log_content)>>]))
       ELSE Return(Str("text", "logs_md", <<"# Task attempt log: ", p.log_type.v>>,
                       [n |-> 1, items |-> <<LogMarkdownFields(tl, p, loc, log_content)>>]))

LogResult(tl, p, loc, data) ==
    CASE loc.stage = "first" -> LogAfterAttempt(tl, p, loc, data)
      [] loc.stage = "job" -> LogAfterJob(tl, p, loc, data)
      [] loc.stage = "page" -> LogAfterPage(tl, p, loc, data)

----------------------------------------------------------------------------
\* The handlers

\* the statements of the try block that follow an await which returned data
Continue(tl, p, loc, data) ==
    CASE tl = "jobhistory_get_info" -> InfoResult(data)
      [] tl = "jobhistory_list_jobs" -> ListJobsResult(p, data)
      [] tl = "jobhistory_get_job" -> EntityResult("job", p, data)
      [] tl = "jobhistory_get_job_counters" -> EntityResult("job_counters", p, data)
      [] tl = "jobhistory_get_job_conf" -> ConfResult(p, data)
      [] tl = "jobhistory_get_job_attempts" -> ListResult("job_attempts", p, data)
      [] tl = "jobhistory_list_tasks" -> ListTasksResult(p, data)
      [] tl = "jobhistory_get_task" -> EntityResult("task", p, data)
      [] tl = "jobhistory_get_task_counters" -> EntityResult("task_counters", p, data)
      [] tl = "jobhistory_list_task_attempts" -> ListResult("task_attempts", p, data)
      [] tl = "jobhistory_get_task_attempt" -> EntityResult("task_attempt", p, data)
      [] tl = "jobhistory_get_task_attempt_counters" ->
            EntityResult("attempt_counters", p, data)
      [] tl \in LogTools -> LogResult(tl, p, loc, data)

\* a try block that issues a failed first request once more
BodyRetry(tl, p, loc, r) ==
    IF r.raised THEN
        IF loc.stage = "first"
        THEN Await(<<FirstRequest(tl, p)>>, [loc EXCEPT !.stage = "retry"])
        ELSE Raise(r.exc)
    ELSE Continue(tl, p, loc, r.value)

\* the try block after an await: an exception of the upstream helper leaves the
\* block, a value is worked on
Body(tl, p, loc, r) ==
    IF r.raised THEN Raise(r.exc) ELSE Continue(tl, p, loc, r.value)

\* an except clause that names the httpx errors only
HandlerCatchesHttpOnly(e) ==
    e.cls \in {"HTTPStatusError"} \cup TimeoutClasses \cup ConnectClasses

\* `except Exception as e`: every exception class of the model derives from Exception
HandlerCatches(e) == TRUE

\* try: <body> except Exception as e: return _handle_error(e)
Handler(tl, p, loc, r) ==
    LET step == Body(tl, p, loc, r)
    IN IF step.act = "raise" /\ HandlerCatches(step.exc)
       THEN Return(_handle_error(step.exc))
       ELSE step

\* log_tool_call: the wrapper hands the handler's string to the host and re-raises
\* what the handler raised
NoResult == [kind |-> "none", str |-> NoStr, exc |-> NoExc]
ToHost(step) ==
    IF step.act = "return" THEN [kind |-> "returned", str |-> step.str, exc |-> NoExc]
    ELSE [kind |-> "raised", str |-> NoStr, exc |-> step.exc]


----------------------------------------------------------------------------
\* The inputs the host passes and the outcomes the upstream produces (bounded)

\* most list entries an upstream response carries
MaxItems == 2
\* most filter fields a jobs-listing call sets
MaxFilters == 2

S_job == <<"j", "o", "b", "_", "1">>
S_task == <<"t", "a", "s", "k", "_", "1">>
S_attempt == <<"a", "t", "t", "e", "m", "p", "t", "_", "1">>
S_user == <<"h", "a", "d", "o", "o", "p">>
S_queue == <<"d", "e", "f", "a", "u", "l", "t">>
S_container == <<"c", "o", "n", "t", "a", "i", "n", "e", "r", "_", "1">>
S_node == <<"n", "1", ".", "d", "c", ":", "8", "0", "4", "2">>
S_host == <<"n", "1", ".", "d", "c">>

Formats == {Absent, JNull, JStr("markdown"), JStr("json"), JStr("xml")}
JobIds == {Absent, JStr(<<>>), JStr(S_job), JStr(Rep(JobIdMaxLen + 1))}
GetJobIds == JobIds \cup {JNull, JStr(<<" ">>), JStr(<<" ">> \o S_job \o <<" ">>),
                          JStr(Rep(JobIdMaxLen)), JStr(<<" ">> \o Rep(JobIdMaxLen))}
TaskIds == {Absent, JStr(<<>>), JStr(S_task)}
AttemptIds == {Absent, JStr(<<" ">>), JStr(S_attempt)}
Users == {Absent, JNull, JStr(<<>>), JStr(S_user)}
States == {Absent, JStr("FAILED"), JStr("BOGUS")}
Queues == {Absent, JStr(S_queue), JStr(<<"a", "\"", "\\", "b">>)}
Limits == {Absent, JNull, JInt(0), JInt(1), JInt(2), JInt(LimitMax), JInt(LimitMax + 1)}
Times == {Absent, JInt(-1), JInt(0), JInt(5)}
TaskTypes == {Absent, JStr("m"), JStr("r"), JStr("MAP")}
LogTypes == {Absent, JStr("stderr"), JStr("bogus")}
Starts == {Absent, JNull, JInt(-5), JInt(0), JInt(7)}
Ends == {Absent, JInt(-1), JInt(0), JInt(3)}

FilterKeys == {Absent, JStr(<<>>), JStr(<<"m", "a", "p">>), JStr(<<"M", "a", "p">>)}

FilterFields == {"user", "state", "queue", "limit", "started_time_begin",
                 "started_time_end", "finished_time_begin", "finished_time_end"}

NumFilters(raw) == Cardinality({f \in FilterFields : raw[f].t # "absent"})

ListJobsInputs ==
    {raw \in {[NoInput EXCEPT !.user = u, !.state = st, !.queue = q, !.limit = l,
                              !.started_time_begin = t1, !.started_time_end = t2,
                              !.finished_time_begin = t3, !.finished_time_end = t4]
                  : u \in Users, st \in States, q \in Queues, l \in Limits,
                    t1 \in Times, t2 \in Times, t3 \in Times, t4 \in Times}
        : NumFilters(raw) <= MaxFilters}

WithJob(ids) == {[NoInput EXCEPT !.job_id = j] : j \in ids}
WithTask(S) == {[r EXCEPT !.task_id = t] : r \in S, t \in TaskIds}
WithAttempt(S) == {[r EXCEPT !.attempt_id = a] : r \in S, a \in AttemptIds}
WithFormat(S) == {[r EXCEPT !.response_format = f] : r \in S, f \in Formats}

\* the argument objects the host may pass to a tool
Inputs(tl) ==
    CASE tl = "jobhistory_get_info" -> {NoInput}
      [] tl = "jobhistory_list_jobs" -> WithFormat(ListJobsInputs)
      [] tl = "jobhistory_get_job" -> WithFormat(WithJob(GetJobIds))
      [] tl \in {"jobhistory_get_job_counters", "jobhistory_get_job_attempts"} ->
            WithFormat(WithJob(JobIds))
      [] tl = "jobhistory_get_job_conf" ->
            {[r EXCEPT !.filter_key = k] : r \in WithFormat(WithJob(JobIds)),
                                           k \in FilterKeys}
      [] tl = "jobhistory_list_tasks" ->
            {[r EXCEPT !.task_type = k] : r \in WithFormat(WithJob(JobIds)), k \in TaskTypes}
      [] tl \in {"jobhistory_get_task", "jobhistory_get_task_counters",
                 "jobhistory_list_task_attempts"} -> WithFormat(WithTask(WithJob(JobIds)))
      [] tl \in {"jobhistory_get_task_attempt", "jobhistory_get_task_attempt_counters"} ->
            WithFormat(WithAttempt(WithTask(WithJob(JobIds))))
      [] tl = "jobhistory_get_task_attempt_logs" ->
            {[r EXCEPT !.log_type = k]
                : r \in WithFormat(WithAttempt(WithTask(WithJob(JobIds)))), k \in LogTypes}
      [] tl = "jobhistory_get_task_attempt_logs_partial" ->
            {[r EXCEPT !.log_type = k, !.start = a, !.end = b]
                : r \in WithFormat(WithAttempt(WithTask(WithJob(JobIds)))),
                  k \in LogTypes, a \in Starts, b \in Ends}

\* strings that encode no parameter set: no JSON at all, a Python repr, a cut-off
\* text, and JSON values that are no object
BadTexts ==
    {<<>>, <<"j", "o", "b">>,
     <<"{", "'", "job_id", "'", ":", " ", "'", "j", "'", "}">>,
     <<"{", "\"", "job_id", "\"", ":", " ", "\"", "j", "o", "b">>,
     <<"{", "\"", "job_id", "\"", ":", " ", "\"", "j", "\"", ",", "}">>,
     <<"0", "1">>, <<"1", "2">>, <<"n", "u", "l", "l">>, <<"\"", "j", "o", "b", "\"">>}

\* the forms in which the host may pass a parameter set
Forms(tl) == IF tl = "jobhistory_get_info" THEN {"object"} ELSE {"object", "string"}

\* a parameter set as an object, or as the JSON string that encodes it
Encoded(form, raw) ==
    IF form = "object" THEN ObjectData(raw) ELSE StringData(raw, Dumps(raw))

\* response bodies
BodyOf(shape, ent, list, text) == [shape |-> shape, ent |-> ent, list |-> list, text |-> text]
NoEnt == [id |-> Absent]
BadBodies == {BodyOf(sh, NoEnt, <<>>, <<>>) : sh \in {"notjson", "nonobject", "strentity"}}
ObjectBody(ent) == BodyOf("object", ent, <<>>, <<>>)
ListBody(list) == BodyOf("object", NoEnt, list, <<>>)
HtmlBody(text) == BodyOf("html", NoEnt, <<>>, text)

\* all sequences over S of length at most n
RECURSIVE SeqsUpTo(_, _)
SeqsUpTo(S, n) ==
    IF n = 0 THEN {<<>>}
    ELSE LET shorter == SeqsUpTo(S, n - 1)
         IN shorter \cup {Append(q, x) : q \in shorter, x \in S}

JobSamples ==
    {[id |-> JStr(<<"job_1">>), state |-> JStr(<<"SUCCEEDED">>)],
     [id |-> JStr(<<"job_2">>), state |-> JStr(<<"FAILED">>)],
     [id |-> JStr(<<"job_3">>), state |-> Absent]}

TaskSamples ==
    {[id |-> JStr(<<"task_m">>), type |-> JStr(<<"MAP">>)],
     [id |-> JStr(<<"task_r">>), type |-> JStr(<<"REDUCE">>)],
     [id |-> JStr(<<"task_x">>), type |-> Absent]}

AttemptSamples ==
    {[id |-> JStr(<<"attempt_1">>), state |-> JStr(<<"SUCCEEDED">>)],
     [id |-> JStr(<<"attempt_2">>), state |-> JStr(<<"RUNNING">>)]}

\* the properties of a configuration: the key at the start, inside in capitals,
\* not there, and a property with no name
PropSamples ==
    {[name |-> JStr(<<"m", "a", "p", ".", "x">>)],
     [name |-> JStr(<<"y", ".", "M", "A", "P">>)],
     [name |-> JStr(<<"y", "a", "r", "n">>)],
     [name |-> Absent]}

JobEntities ==
    {[id |-> JStr(S_job), state |-> JStr(<<"SUCCEEDED">>), user |-> u]
        : u \in {Absent, JStr(<<>>), JStr(S_user)}}

\* the states of the detail handlers: mapped, RUNNING, not a state, missing
DetailStates == {JStr(<<"SUCCEEDED">>), JStr(<<"RUNNING">>), JStr(<<"BOGUS">>), Absent}

JobDetails == JobEntities \cup {[id |-> JStr(S_job), state |-> st, user |-> JStr(S_user)]
                                   : st \in DetailStates}

TaskDetails == {[id |-> JStr(S_task), state |-> st] : st \in DetailStates}

TaskAttemptEntities ==
    {[id |-> JStr(S_attempt), state |-> JStr(<<"SUCCEEDED">>),
      assignedContainerId |-> c, nodeHttpAddress |-> n]
        : c \in {Absent, JStr(<<>>), JStr(S_container)},
          n \in {Absent, JStr(<<>>), JStr(S_node), JStr(S_host), JInt(5)}}

AttemptDetails ==
    {[id |-> JStr(S_attempt), state |-> st, assignedContainerId |-> JStr(S_container),
      nodeHttpAddress |-> JStr(S_node)] : st \in DetailStates}

ObjectBodies(tl, stage) ==
    CASE tl = "jobhistory_list_jobs" -> {ListBody(l) : l \in SeqsUpTo(JobSamples, MaxItems)}
      [] tl = "jobhistory_list_tasks" -> {ListBody(l) : l \in SeqsUpTo(TaskSamples, MaxItems)}
      [] tl \in {"jobhistory_get_job_attempts", "jobhistory_list_task_attempts"} ->
            {ListBody(l) : l \in SeqsUpTo(AttemptSamples, MaxItems)}
      [] tl = "jobhistory_get_job_conf" -> {ListBody(l) : l \in SeqsUpTo(PropSamples, MaxItems)}
      [] tl = "jobhistory_get_job" -> {ObjectBody(e) : e \in JobDetails}
      [] tl = "jobhistory_get_task" -> {ObjectBody(e) : e \in TaskDetails}
      [] tl = "jobhistory_get_task_attempt" ->
            {ObjectBody(e) : e \in TaskAttemptEntities \cup AttemptDetails}
      [] tl \in LogTools /\ stage = "first" -> {ObjectBody(e) : e \in TaskAttemptEntities}
      [] tl \in LogTools /\ stage = "job" -> {ObjectBody(e) : e \in JobEntities}
      [] OTHER -> {ObjectBody(NoEnt), ObjectBody([id |-> JStr(<<"id_1">>)])}

StatusCodes == {200, 302, 400, 401, 403, 404, 500, 502, 503}
FailureClasses == {"ReadTimeout", "ConnectTimeout", "ConnectError", "ReadError"}

\* outcomes that carry no usable body
FailOutcomes ==
    {Failed(c) : c \in FailureClasses}
        \cup {Response(c, BodyOf("none", NoEnt, <<>>, <<>>))
                  : c \in {c \in StatusCodes : ~IsSuccess(c)}}

RestOutcomes(tl, stage) ==
    FailOutcomes \cup {Response(200, b) : b \in BadBodies \cup ObjectBodies(tl, stage)}

Pages ==
    {<<"<", "h", "t", "m", "l", ">", "n", "o", " ", "l", "o", "g", "<", "/", "h", "t", "m", "l", ">">>,
     <<"<", "p", "r", "e", ">", "<", "/", "p", "r", "e", ">">>,
     <<"<", "h", "t", "m", "l", ">", "<", "p", "r", "e", ">", " ", "\n", "<", "/", "p", "r", "e", ">", "<", "/", "h", "t", "m", "l", ">">>,
     <<"<", "h", "t", "m", "l", ">", "<", "p", "r", "e", ">", "o", "k", "<", "/", "p", "r", "e", ">", "<", "/", "h", "t", "m", "l", ">">>,
     <<"<", "P", "R", "E", " ", "c", "l", "a", "s", "s", "=", "\"", "x", "\"", ">", "a", " ", "&", "a", "m", "p", ";", " ", "b", "<", "/", "P", "R", "E", ">", "<", "p", "r", "e", ">", "2", "<", "/", "p", "r", "e", ">">>}

HtmlOutcomes == FailOutcomes \cup {Response(200, HtmlBody(t)) : t \in Pages}

\* the invocations the host keeps in flight together
Callers == {1, 2}

\* an invocation the host has not started; request_id is the value of
\* request_id_var in the context of the invocation's task (default '-')
IdleCall ==
    [pc |-> "idle", tool |-> "none", params |-> NoInput, locals |-> NoLocals,
     requests |-> <<>>, inflight |-> {}, responses |-> <<>>, result |-> NoResult,
     request_id |-> "-"]

----------------------------------------------------------------------------
\* The state machine of one invocation

Init ==
    /\ pc = "idle"
    /\ tool = "none"
    /\ args = ObjectData(NoInput)
    /\ input = NoInput
    /\ params = NoInput
    /\ locals = NoLocals
    /\ requests = <<>>
    /\ inflight = {}
    /\ responses = <<>>
    /\ result = NoResult
    /\ fn = "none"
    /\ arg = <<>>
    /\ out = <<>>
    /\ calls = [i \in Callers |-> IdleCall]
    /\ log = <<>>

\* the handler ran from one suspension point to the next, or to its end; the
\* request answered (0 for none) leaves the in-flight set, new requests enter it
Advance(answered, step) ==
    IF step.act = "await"
    THEN /\ pc' = "awaiting"
         /\ requests' = requests \o step.reqs
         /\ inflight' = (inflight \ {answered})
                            \cup (Len(requests) + 1 .. Len(requests) + Len(step.reqs))
         /\ locals' = step.loc
         /\ result' = result
    ELSE /\ pc' = "done"
         /\ requests' = requests
         /\ inflight' = inflight \ {answered}
         /\ locals' = locals
         /\ result' = ToHost(step)

\* the host calls a tool: the framework validates the arguments against the input
\* model, parse_json_string first; a valid call enters the handler, which runs to
\* its first upstream call
Validate(tl, d) ==
    LET parsed == parse_json_string(d)
    IN /\ tool' = tl
       /\ args' = d
       /\ input' = parsed.obj
       /\ responses' = responses
       /\ IF parsed.kind = "dict" /\ InputOk(tl, parsed.obj)
          THEN /\ params' = InputModel(tl, parsed.obj)
               /\ Advance(0, Begin(tl, InputModel(tl, parsed.obj)))
          ELSE /\ params' = params
               /\ pc' = "rejected"
               /\ UNCHANGED <<locals, requests, inflight, result>>

Invoke ==
    /\ pc = "idle"
    /\ UNCHANGED <<applied, concurrent>>
    /\ \E tl \in Tools :
        \/ \E raw \in Inputs(tl) : \E form \in Forms(tl) : Validate(tl, Encoded(form, raw))
        \/ \E t \in BadTexts : tl # "jobhistory_get_info" /\ Validate(tl, NoData(t))

\* an upstream call made through _make_request ends; the handler resumes
RestReturns ==
    /\ pc = "awaiting"
    /\ \E i \in inflight : \E o \in RestOutcomes(tool, locals.stage) :
        /\ requests[i].via = "_make_request"
        /\ responses' = Append(responses, [req |-> i, outcome |-> o])
        /\ Advance(i, Handler(tool, params, locals, _make_request(o)))
        /\ UNCHANGED <<tool, args, input, params, applied, concurrent>>

\* the log page fetch made through _fetch_logs_html ends; the handler resumes
HtmlReturns ==
    /\ pc = "awaiting"
    /\ \E i \in inflight : \E o \in HtmlOutcomes :
        /\ requests[i].via = "_fetch_logs_html"
        /\ responses' = Append(responses, [req |-> i, outcome |-> o])
        /\ Advance(i, Handler(tool, params, locals, _fetch_logs_html(o)))
        /\ UNCHANGED <<tool, args, input, params, applied, concurrent>>

Next == Invoke \/ RestReturns \/ HtmlReturns

Spec == Init /\ [][Next]_vars

----------------------------------------------------------------------------
\* Python integers of any size, as JSON numbers arrive

\* sign and magnitude; the magnitude in limbs of three decimal digits, most
\* significant first, without a leading zero limb; zero has no limb
Num(neg, limbs) == [t |-> "num", neg |-> neg, limbs |-> limbs]

RECURSIVE LimbsOf(_)
LimbsOf(n) == IF n = 0 THEN <<>> ELSE Append(LimbsOf(n \div 1000), n % 1000)

NumOf(n) == Num(n < 0, LimbsOf(Abs(n)))

RECURSIVE LessFrom(_, _, _)
LessFrom(a, b, i) ==
    IF i > Len(a) THEN FALSE
    ELSE IF a[i] # b[i] THEN a[i] < b[i]
    ELSE LessFrom(a, b, i + 1)

\* a < b for magnitudes
Less(a, b) == IF Len(a) # Len(b) THEN Len(a) < Len(b) ELSE LessFrom(a, b, 1)

RECURSIVE Normal(_)
Normal(a) == IF a # <<>> /\ Head(a) = 0 THEN Normal(Tail(a)) ELSE a

\* a // d and a % d for a magnitude a and a small divisor d
RECURSIVE DivModFrom(_, _, _, _, _)
DivModFrom(a, d, i, carry, q) ==
    IF i > Len(a) THEN [q |-> Normal(q), r |-> carry]
    ELSE DivModFrom(a, d, i + 1, (carry * 1000 + a[i]) % d,
                    Append(q, (carry * 1000 + a[i]) \div d))

DivMod(a, d) == DivModFrom(a, d, 1, 0, <<>>)

Pad3(k) ==
    IF k < 10 THEN "00" \o ToString(k)
    ELSE IF k < 100 THEN "0" \o ToString(k)
    ELSE ToString(k)

RECURSIVE DecFrom(_, _)
DecFrom(a, i) == IF i > Len(a) THEN "" ELSE Pad3(a[i]) \o DecFrom(a, i + 1)

\* str(n) of a magnitude
DecStr(a) == IF a = <<>> THEN "0" ELSE ToString(a[1]) \o DecFrom(a, 2)

\* the magnitude as a number, when it is below 2^31
RECURSIVE ValueOf(_)
ValueOf(a) == IF a = <<>> THEN 0 ELSE ValueOf(SubSeq(a, 1, Len(a) - 1)) * 1000 + a[Len(a)]

\* `not x or x <= 0` for None and integers
NotPositive(x) == x.t = "null" \/ x.limbs = <<>> \/ x.neg

----------------------------------------------------------------------------
\* Formatting helpers

\* first second that no longer lies in year 9999 in a zone utcoffset east of UTC
YearLimit(utcoffset) ==
    CASE utcoffset = "+14:00" -> <<253, 402, 250, 400>>
      [] utcoffset = "+00:00" -> <<253, 402, 300, 800>>
      [] utcoffset = "-12:00" -> <<253, 402, 344, 0>>

\* ms / 1000 is a double: from 2^63 - 512 seconds on it rounds to 2^63, which
\* time_t does not hold
TimeTLimit == <<9, 223, 372, 36, 854, 775, 296>>

\* datetime.fromtimestamp(ms / 1000).strftime(...) for ms > 0: OverflowError past
\* time_t (and when ms / 1000 is too large for a float), ValueError or OSError
\* past year 9999, the local time otherwise
fromtimestamp(ms, utcoffset) ==
    LET seconds == DivMod(ms.limbs, 1000).q
    IN IF ~Less(seconds, TimeTLimit)
       THEN Raised(Exc("OverflowError", 0, <<"timestamp out of range for platform time_t">>))
       ELSE IF ~Less(seconds, YearLimit(utcoffset))
       THEN Raised(Exc("ValueError", 0, <<"year is out of range">>))
       ELSE Returned(<<"local time ", DecStr(seconds), utcoffset>>)

\* except (ValueError, OSError): return "N/A"
_format_timestamp(ms, utcoffset) ==
    IF NotPositive(ms) THEN Returned(<<"N/A">>)
    ELSE LET r == fromtimestamp(ms, utcoffset)
         IN IF r.raised /\ r.exc.cls \in {"ValueError", "OSError"}
            THEN Returned(<<"N/A">>)
            ELSE r

\* a minute still rendered in the seconds form
FormatDurationMinuteInSeconds(ms) ==
    IF NotPositive(ms) THEN <<"N/A">>
    ELSE LET seconds == DivMod(ms.limbs, 1000).q
         IN IF Less(seconds, LimbsOf(61)) THEN <<DecStr(seconds), "s">>
            ELSE IF Less(seconds, LimbsOf(3600))
            THEN <<DecStr(DivMod(seconds, 60).q), "m", ToString(DivMod(seconds, 60).r), "s">>
            ELSE <<DecStr(DivMod(seconds, 3600).q), "h",
                   ToString(DivMod(seconds, 3600).r \div 60), "m",
                   ToString(DivMod(seconds, 60).r), "s">>

\* the unit words are written s, m, h
_format_duration(ms) ==
    IF NotPositive(ms) THEN <<"N/A">>
    ELSE LET seconds == DivMod(ms.limbs, 1000).q
         IN IF Less(seconds, LimbsOf(60)) THEN <<DecStr(seconds), "s">>
            ELSE IF Less(seconds, LimbsOf(3600))
            THEN <<DecStr(DivMod(seconds, 60).q), "m", ToString(DivMod(seconds, 60).r), "s">>
            ELSE <<DecStr(DivMod(seconds, 3600).q), "h",
                   ToString(DivMod(seconds, 3600).r \div 60), "m",
                   ToString(DivMod(seconds, 60).r), "s">>

\* f"{n:,}": the decimal digits in groups of three
RECURSIVE CommaFrom(_, _)
CommaFrom(a, i) == IF i > Len(a) THEN "" ELSE "," \o Pad3(a[i]) \o CommaFrom(a, i + 1)

Comma(n) ==
    IF n = 0 THEN "0"
    ELSE (IF n < 0 THEN "-" ELSE "") \o ToString(LimbsOf(Abs(n))[1])
            \o CommaFrom(LimbsOf(Abs(n)), 2)

\* index of the last "." of s, 0 when there is none
RECURSIVE LastDot(_, _)
LastDot(s, i) == IF i = 0 THEN 0 ELSE IF s[i] = "." THEN i ELSE LastDot(s, i - 1)

\* group_name.split(".")[-1] if "." in group_name else group_name
ShortName(group_name) == SubSeq(group_name, LastDot(group_name, Len(group_name)) + 1,
                                Len(group_name))

\* counter_groups = counters_data.get("counterGroup", []), then, each time
\* `if not counter_groups`, the same for "taskCounterGroup" and
\* "taskAttemptCounterGroup"
CounterGroups(counters_data) ==
    LET job == Get(counters_data.counterGroup, JList(<<>>))
        task == IF ~Truthy(job) THEN Get(counters_data.taskCounterGroup, JList(<<>>)) ELSE job
    IN IF ~Truthy(task) THEN Get(counters_data.taskAttemptCounterGroup, JList(<<>>)) ELSE task

\* a line that shows the map and reduce values when either is there
CounterLineEitherSide(counter) ==
    LET name == Get(counter.name, JStr(<<"Unknown">>)).v
        total_value == Get(counter.totalCounterValue, Get(counter.value, JInt(0))).v
        map_value == counter.mapCounterValue
        reduce_value == counter.reduceCounterValue
    IN IF ~IsNone(map_value) \/ ~IsNone(reduce_value)
       THEN <<"- **">> \o name \o <<"**: ", Comma(total_value), " (Map: ",
                                   Comma(Get(map_value, JInt(0)).v), ", Reduce: ",
                                   Comma(Get(reduce_value, JInt(0)).v), ")", "\n">>
       ELSE <<"- **">> \o name \o <<"**: ", Comma(total_value), "\n">>

\* the line of one counter
CounterLine(counter) ==
    LET name == Get(counter.name, JStr(<<"Unknown">>)).v
        total_value == Get(counter.totalCounterValue, Get(counter.value, JInt(0))).v
        map_value == counter.mapCounterValue
        reduce_value == counter.reduceCounterValue
    IN IF ~IsNone(map_value) /\ ~IsNone(reduce_value)
       THEN <<"- **">> \o name \o <<"**: ", Comma(total_value), " (Map: ", Comma(map_value.v),
                                   ", Reduce: ", Comma(reduce_value.v), ")", "\n">>
       ELSE <<"- **">> \o name \o <<"**: ", Comma(total_value), "\n">>

RECURSIVE CounterLines(_, _)
CounterLines(counters, i) ==
    IF i > Len(counters) THEN <<>>
    ELSE CounterLine(counters[i]) \o CounterLines(counters, i + 1)

\* the lines of the groups from the i-th on: heading, empty line, one line per
\* counter, empty line
RECURSIVE GroupLines(_, _)
GroupLines(groups, i) ==
    IF i > Len(groups) THEN <<>>
    ELSE <<"## ">> \o ShortName(Get(groups[i].counterGroupName, JStr(<<"Unknown Group">>)).v)
            \o <<"\n", "\n">>
            \o CounterLines(Get(groups[i].counter, JList(<<>>)).v, 1)
            \o <<"\n">> \o GroupLines(groups, i + 1)

\* "\n".join(lines): every line but the last is followed by a line break
CountersMarkdown(groups, title) ==
    LET text == <<"# ">> \o title \o <<"\n", "\n">> \o GroupLines(groups, 1)
    IN SubSeq(text, 1, Len(text) - 1)

_format_counters_markdown(counters_data, title) ==
    CountersMarkdown(CounterGroups(counters_data).v, title)

\* units = ['B', 'KB', 'MB', 'GB', 'TB', 'PB']
Units == <<"B", "KB", "MB", "GB", "TB", "PB">>

\* a loop that divides only while value > 1024
ScaleAbove1024(whole, rems, unit_index) ==
    LET RECURSIVE Go(_, _, _)
        Go(w, r, u) ==
            IF ~Less(w, LimbsOf(1025)) /\ u < Len(Units) - 1
            THEN Go(DivMod(w, 1024).q, Append(r, DivMod(w, 1024).r), u + 1)
            ELSE [whole |-> w, rems |-> r, unit_index |-> u]
    IN Go(whole, rems, unit_index)

\* while value >= 1024 and unit_index < len(units) - 1: value /= 1024. The float
\* value is held exactly, as its whole part and the remainders of the divisions
\* (the first remainder is the least significant); this is the value of the code
\* for every integer that a double holds exactly
RECURSIVE Scale(_, _, _)
Scale(whole, rems, unit_index) ==
    IF ~Less(whole, LimbsOf(1024)) /\ unit_index < Len(Units) - 1
    THEN Scale(DivMod(whole, 1024).q, Append(rems, DivMod(whole, 1024).r), unit_index + 1)
    ELSE [whole |-> whole, rems |-> rems, unit_index |-> unit_index]

\* the fraction rems / 1024^Len(rems) times 100: whole hundredths h and the rest
RECURSIVE Times100(_, _, _, _)
Times100(rems, i, carry, rest) ==
    IF i > Len(rems) THEN [h |-> carry, rest |-> rest]
    ELSE Times100(rems, i + 1, (rems[i] * 100 + carry) \div 1024,
                  Append(rest, (rems[i] * 100 + carry) % 1024))

\* f"{value:.2f}": the hundredths of the fraction, rounded to the nearest and to
\* the even one on a tie (100 when the fraction rounds up to the next integer)
Hundredths(rems) ==
    LET t == Times100(rems, 1, 0, <<>>)
        n == Len(t.rest)
        low == \E i \in 1..(n - 1) : t.rest[i] # 0
        up == n > 0 /\ (t.rest[n] > 512
                          \/ (t.rest[n] = 512 /\ (low \/ t.h % 2 = 1)))
    IN IF up THEN t.h + 1 ELSE t.h

_format_bytes(bytes_value) ==
    IF NotPositive(bytes_value) THEN <<"0", " ", "B">>
    ELSE LET value == Scale(bytes_value.limbs, <<>>, 0)
             h == Hundredths(value.rems)
             whole == IF h = 100 THEN LimbsOf(ValueOf(value.whole) + 1) ELSE value.whole
         IN IF value.unit_index = 0
            THEN <<DecStr(value.whole), " ", Units[1]>>
            ELSE <<DecStr(whole), ".", ToString((h % 100) \div 10), ToString(h % 10),
                   " ", Units[value.unit_index + 1]>>

----------------------------------------------------------------------------
\* The helper functions applied on their own

\* longest node address tried
MaxAddrLen == 4

\* node addresses: every string of at most MaxAddrLen characters over a letter,
\* a dot and a colon
Addresses == SeqsUpTo({"h", ".", ":"}, MaxAddrLen)

\* a helper is applied once, to an argument drawn from its sample set
Apply(f, x, y) ==
    /\ fn = "none"
    /\ fn' = f
    /\ arg' = x
    /\ out' = y
    /\ UNCHANGED <<invocation, concurrent>>

ExtractHostname == \E a \in Addresses : Apply("_extract_hostname", a, _extract_hostname(a))

\* epoch milliseconds: missing, zero, negative, ordinary, around the end of year
\* 9999 in each zone, far past it, and around the end of time_t
Epochs ==
    {JNull, NumOf(0), NumOf(-5), NumOf(1), NumOf(999), Num(FALSE, <<1, 700, 0, 0, 0>>),
     Num(FALSE, <<253, 402, 250, 399, 999>>), Num(FALSE, <<253, 402, 250, 400, 0>>),
     Num(FALSE, <<253, 402, 300, 799, 999>>), Num(FALSE, <<253, 402, 300, 800, 0>>),
     Num(FALSE, <<253, 402, 343, 999, 999>>), Num(FALSE, <<253, 402, 344, 0, 0>>),
     Num(FALSE, <<1, 0, 0, 0, 0, 0>>), Num(FALSE, <<1, 0, 0, 0, 0, 0, 0, 0>>),
     Num(FALSE, <<9, 223, 372, 36, 854, 775, 295, 999>>),
     Num(FALSE, <<9, 223, 372, 36, 854, 775, 296, 0>>),
     Num(FALSE, <<10, 0, 0, 0, 0, 0, 0, 0>>), Num(TRUE, <<10, 0, 0, 0, 0, 0, 0, 0>>)}

\* the zone of the process
Zones == {"-12:00", "+00:00", "+14:00"}

\* whole seconds around the tier boundaries, each with 0, 1, 500 and 999 ms
DurationSeconds == (0..3) \cup (58..61) \cup (119..121) \cup (3598..3601) \cup {3661, 7199, 7200, 86399, 90061}
Durations == {NumOf(s * 1000 + r) : s \in DurationSeconds, r \in {0, 1, 500, 999}}

FormatTimestamp ==
    \E ms \in Epochs : \E z \in Zones :
        Apply("_format_timestamp", [ms |-> ms, utcoffset |-> z], _format_timestamp(ms, z))

FormatDuration ==
    \E ms \in Epochs \cup Durations :
        Apply("_format_duration", ms, Returned(_format_duration(ms)))

\* byte counts: missing, zero, negative, around 1024, every count of the first
\* hundred of the KB range, the ends of every unit and counts past 1024 PB; a
\* double holds each of them exactly
ByteCounts ==
    {JNull, NumOf(-1), NumOf(1536), NumOf(1048575), NumOf(1048576), NumOf(1572864),
     NumOf(1073741823), NumOf(1073741824), NumOf(2147483647),
     Num(FALSE, <<1, 99, 511, 627, 775>>), Num(FALSE, <<1, 99, 511, 627, 776>>),
     Num(FALSE, <<1, 649, 267, 441, 664>>),
     Num(FALSE, <<1, 125, 899, 906, 842, 623>>), Num(FALSE, <<1, 125, 899, 906, 842, 624>>),
     Num(FALSE, <<2, 814, 749, 767, 106, 560>>),
     Num(FALSE, <<1, 152, 921, 504, 606, 846, 976>>),
     Num(FALSE, <<2, 882, 303, 761, 517, 117, 440>>)}
        \cup {NumOf(n) : n \in (0..2) \cup (1020..1160)}

FormatBytes ==
    \E n \in ByteCounts : Apply("_format_bytes", n, Returned(_format_bytes(n)))

\* documents put together from parts
\* what precedes the first pre element
PrePrefixes ==
    {<<>>,
     <<"<", "h", "t", "m", "l", ">", "<", "b", "o", "d", "y", ">">>,
     <<"x", "\n">>}

\* its start tag
PreOpens ==
    {<<"<", "p", "r", "e", ">">>,
     <<"<", "P", "R", "E", ">">>,
     <<"<", "P", "r", "e", " ", "c", "l", "a", "s", "s", "=", "\"", "l", "o", "g", "\"", ">">>}

\* its content: empty, plain, with line break and blanks around, with entities
PreContents ==
    {<<>>,
     <<"o", "k">>,
     <<" ", "a", "\n", "b", "\t">>,
     <<"a", " ", "&", "a", "m", "p", ";", " ", "b">>,
     <<"&", "l", "t", ";", "x", "&", "g", "t", ";">>,
     <<"&", "q", "u", "o", "t", ";", "q", "&", "#", "3", "9", ";">>,
     <<"&", "n", "b", "s", "p", ";", "x", "&", "n", "b", "s", "p", ";">>}

\* its end tag
PreCloses ==
    {<<"<", "/", "p", "r", "e", ">">>,
     <<"<", "/", "P", "R", "E", ">">>}

\* what follows: nothing, the rest of the page, another pre element
PreSuffixes ==
    {<<>>,
     <<"<", "/", "b", "o", "d", "y", ">", "<", "/", "h", "t", "m", "l", ">">>,
     <<"<", "p", "r", "e", ">", "2", "<", "/", "p", "r", "e", ">">>}

\* documents without a pre element
NoPreDocuments ==
    {<<>>,
     <<"<", "h", "t", "m", "l", ">", "n", "o", " ", "p", "r", "e", "<", "/", "h", "t", "m", "l", ">">>,
     <<"<", "p", "r", "e", ">", "o", "p", "e", "n", " ", "o", "n", "l", "y">>,
     <<"<", "/", "p", "r", "e", ">", "<", "p", "r", "e", ">">>,
     <<"<", "p", ">", "r", "e", "<", "/", "p", ">">>}

Document(prefix, open, content, close, suffix) == prefix \o open \o content \o close \o suffix

Documents ==
    NoPreDocuments
        \cup {Document(a, b, c, d, e) : a \in PrePrefixes, b \in PreOpens, c \in PreContents,
                                        d \in PreCloses, e \in PreSuffixes}

\* the six entities escaped once more: &amp;lt; ... &amp;nbsp; between two letters
EscapedContents ==
    {<<"a", "&", "a", "m", "p", ";">> \o rest \o <<"b">> :
        rest \in {<<"l", "t", ";">>, <<"g", "t", ";">>, <<"a", "m", "p", ";">>,
                  <<"q", "u", "o", "t", ";">>, <<"#", "3", "9", ";">>,
                  <<"n", "b", "s", "p", ";">>}}

EscapedDocument(content) == <<"<", "p", "r", "e", ">">> \o content \o <<"<", "/", "p", "r", "e", ">">>

ExtractPreContent ==
    \E html \in Documents \cup {EscapedDocument(c) : c \in EscapedContents} :
        Apply("_extract_pre_content", html, _extract_pre_content(html))

\* counters with and without the map and reduce values
CounterSamples ==
    <<[name |-> JStr(<<"BYTES_READ">>), totalCounterValue |-> JInt(1234567), value |-> Absent,
       mapCounterValue |-> JInt(1234000), reduceCounterValue |-> JInt(567)],
      [name |-> JStr(<<"CPU_MILLISECONDS">>), totalCounterValue |-> Absent, value |-> JInt(42),
       mapCounterValue |-> Absent, reduceCounterValue |-> Absent]>>

\* the group list a response carries under key: the key missing, an empty list,
\* or one group named after the key
GroupLists(name) ==
    {Absent, JList(<<>>),
     JList(<<[counterGroupName |-> JStr(<<"o", "r", "g", ".", "a", ".">> \o name),
              counter |-> JList(CounterSamples)]>>)}

CountersData ==
    [counterGroup : GroupLists(<<"J">>), taskCounterGroup : GroupLists(<<"T">>),
     taskAttemptCounterGroup : GroupLists(<<"A">>)]

\* one counter for every way its total, its value, its map value and its reduce
\* value are missing, null, zero or positive
CounterVariants ==
    [name : {JStr(<<"C">>)}, totalCounterValue : {Absent, JInt(0), JInt(7000)},
     value : {Absent, JInt(0), JInt(42)}, mapCounterValue : {Absent, JNull, JInt(0), JInt(5)},
     reduceCounterValue : {Absent, JNull, JInt(0), JInt(6)}]

\* a job-level response with one group of one counter
OneCounter(counter) ==
    [counterGroup |-> JList(<<[counterGroupName |-> JStr(<<"G">>),
                               counter |-> JList(<<counter>>)]>>),
     taskCounterGroup |-> Absent, taskAttemptCounterGroup |-> Absent]

FormatCounters ==
    \E d \in CountersData \cup {OneCounter(c) : c \in CounterVariants} :
        Apply("_format_counters_markdown", d,
              Returned(_format_counters_markdown(d, <<"Counters">>)))

HelperNext ==
    \/ ExtractHostname
    \/ FormatTimestamp
    \/ FormatDuration
    \/ FormatBytes
    \/ ExtractPreContent
    \/ FormatCounters

Helpers == Init /\ [][HelperNext]_vars

----------------------------------------------------------------------------
\* Several invocations on one event loop: each runs from one await to the next
\* without interruption, and the awaits of different invocations end in any order

\* str(uuid.uuid4())[:8], one per invocation
NewRequestId(i) == "req-" \o ToString(i)

\* the calls the host makes together: both log tools and a single-request tool
ConcurrentCalls ==
    LET ids == [NoInput EXCEPT !.job_id = JStr(S_job), !.task_id = JStr(S_task),
                               !.attempt_id = JStr(S_attempt)]
    IN {<<"jobhistory_get_task_attempt_logs", [ids EXCEPT !.log_type = JStr("stderr")]>>,
        <<"jobhistory_get_task_attempt_logs_partial",
          [ids EXCEPT !.start = JInt(-5), !.response_format = JStr("json")]>>,
        <<"jobhistory_get_job", [NoInput EXCEPT !.job_id = JStr(S_job)]>>}

\* the upstream answers them: two failures, and task attempts that ran in
\* different containers on different nodes
ConcurrentAttempts ==
    {[id |-> JStr(S_attempt), state |-> JStr(<<"SUCCEEDED">>),
      assignedContainerId |-> JStr(S_container \o c), nodeHttpAddress |-> JStr(c \o S_node)]
        : c \in {<<>>, <<"2">>}}

ConcurrentRest(tl, stage) ==
    {Failed("ReadTimeout"), Response(404, BodyOf("none", NoEnt, <<>>, <<>>))}
        \cup {Response(200, ObjectBody(e))
                  : e \in IF tl \in LogTools /\ stage = "first" THEN ConcurrentAttempts
                          ELSE JobEntities}

\* a failure, the page without a pre block and the page whose pre block holds "ok"
ConcurrentHtml ==
    {Failed("ConnectError")}
        \cup {Response(200, HtmlBody(t))
                  : t \in {t \in Pages : ~HasFragment(t, "p")
                                              \/ _extract_pre_content(t) = <<"o", "k">>}}

\* Advance on the record of one invocation
Advanced(c, answered, step) ==
    IF step.act = "await"
    THEN [c EXCEPT !.pc = "awaiting",
                   !.requests = @ \o step.reqs,
                   !.inflight = (@ \ {answered})
                       \cup (Len(c.requests) + 1 .. Len(c.requests) + Len(step.reqs)),
                   !.locals = step.loc]
    ELSE [c EXCEPT !.pc = "done",
                   !.inflight = @ \ {answered},
                   !.result = ToHost(step)]

\* the lines an upstream helper logs when its GET ends: [REST_RSP] once a response
\* arrived, [REST_ERR] in every except clause
ResponseLines(o, r) ==
    (IF o.kind = "response" THEN <<"REST_RSP">> ELSE <<>>)
        \o (IF r.raised THEN <<"REST_ERR">> ELSE <<>>)

\* the lines logged up to the next suspension point or to the end: [REST_REQ] of
\* each request issued, or the wrapper's [TOOL_RSP] / [TOOL_ERR]
StepLines(step) ==
    IF step.act = "await" THEN [k \in 1..Len(step.reqs) |-> "REST_REQ"]
    ELSE IF step.act = "return" THEN <<"TOOL_RSP">>
    ELSE <<"TOOL_ERR">>

\* a request id kept in one module-level variable: a line gets the id of another
\* invocation that has begun
RequestIdModuleLevel(cs, i) ==
    IF \E j \in Callers \ {i} : cs[j].pc # "idle"
    THEN cs[CHOOSE j \in Callers \ {i} : cs[j].pc # "idle"].request_id
    ELSE cs[i].request_id

\* request_id_var.get() while invocation i runs: the value set in the context of
\* the task of invocation i
RequestId(cs, i) == cs[i].request_id

\* RequestIdFilter.filter: each line that invocation i logs carries
\* request_id_var.get() of the context it is logged in
Stamp(cs, i, lines) ==
    [k \in 1..Len(lines) |-> [by |-> i, request_id |-> RequestId(cs, i), line |-> lines[k]]]

\* locals kept in module-level variables that every invocation assigns
FrameModuleLevel(cs, i) ==
    LET assigned == {j \in Callers \ {i} : cs[j].locals.stage # "first"}
    IN IF assigned = {} THEN cs[i].locals
       ELSE LET j == CHOOSE j \in assigned : TRUE
            IN [cs[i].locals EXCEPT !.container_id = cs[j].locals.container_id,
                                    !.node_http_address = cs[j].locals.node_http_address]

\* the local variables of the coroutine of invocation i
Frame(cs, i) == cs[i].locals

\* the wrapper of invocation i sets its request id and logs the call; the handler
\* runs to its first upstream call
Enter ==
    \E i \in Callers : \E call \in ConcurrentCalls :
        LET tl == call[1]
            p == InputModel(tl, call[2])
            step == Begin(tl, p)
            c == [IdleCall EXCEPT !.tool = tl, !.params = p,
                                  !.request_id = NewRequestId(i)]
        IN /\ calls[i].pc = "idle"
           /\ InputOk(tl, call[2])
           /\ calls' = [calls EXCEPT ![i] = Advanced(c, 0, step)]
           /\ log' = log \o Stamp(calls', i, <<"TOOL_CALL">> \o StepLines(step))
           /\ UNCHANGED <<invocation, applied>>

\* the upstream call k of invocation i ended in o; r is what the helper hands its
\* caller, and the handler of invocation i resumes
Resume(i, k, o, r) ==
    LET c == calls[i]
        step == Handler(c.tool, c.params, Frame(calls, i), r)
        answered == [c EXCEPT !.responses = Append(@, [req |-> k, outcome |-> o])]
    IN /\ calls' = [calls EXCEPT ![i] = Advanced(answered, k, step)]
       /\ log' = log \o Stamp(calls', i, ResponseLines(o, r) \o StepLines(step))
       /\ UNCHANGED <<invocation, applied>>

CallRestReturns ==
    \E i \in Callers : \E k \in calls[i].inflight :
        \E o \in ConcurrentRest(calls[i].tool, calls[i].locals.stage) :
            /\ calls[i].pc = "awaiting"
            /\ calls[i].requests[k].via = "_make_request"
            /\ Resume(i, k, o, _make_request(o))

CallHtmlReturns ==
    \E i \in Callers : \E k \in calls[i].inflight : \E o \in ConcurrentHtml :
        /\ calls[i].pc = "awaiting"
        /\ calls[i].requests[k].via = "_fetch_logs_html"
        /\ Resume(i, k, o, _fetch_logs_html(o))

ConcurrentNext == Enter \/ CallRestReturns \/ CallHtmlReturns

Concurrent == Init /\ [][ConcurrentNext]_vars

----------------------------------------------------------------------------
\* Vocabulary of the properties


\* the fragments of t occur in s, contiguously and in order

LastOutcome == responses[Len(responses)].outcome

\* the upstream call did not deliver a body: transport failure, non-2xx, not JSON
IsFailure(o) ==
    \/ o.kind = "fail"
    \/ ~IsSuccess(o.status)
    \/ o.body.shape = "notjson"

\* a 2xx response whose JSON has the expected object shape
IsObject(o) == o.kind = "response" /\ IsSuccess(o.status) /\ o.body.shape = "object"

\* the field is not in the response, or is empty
Lacks(x) == IsNone(x) \/ (x.t = "str" /\ x.v = <<>>)

ErrorTags == {"http_404", "http_403", "http_401", "http_500", "http_503", "http_other",
              "timeout", "connect", "exception", "no_container", "no_node", "no_user"}

IsLogTool == tool \in LogTools

\* C1: every handler invocation that has ended has returned a string to the host,
\* whatever each upstream call ended in; no exception reaches the host, and an
\* invocation that has not ended is waiting for an upstream call.
C1_HandlerAlwaysReturnsString ==
    /\ result.kind # "raised"
    /\ pc = "done" => result.kind = "returned" /\ result.str.enc \in {"text", "json"}
    /\ pc = "awaiting" => inflight # {}

\* a body whose fields have an unexpected type made the markdown rendering raise,
\* and the host still received a string
C1_Witness ==
    /\ pc = "done"
    /\ tool = "jobhistory_get_job"
    /\ LastOutcome.body.shape = "strentity"
    /\ result.kind = "returned"
    /\ result.str.tag = "exception"

\* the schema violations the claim lists, read off the arguments the host passed
ViolatesId(x) == x.t = "absent" \/ (x.t = "str" /\ Strip(x.v) = <<>>)
ViolatesEnum(x, enum) == x.t = "str" /\ x.v \notin enum
ViolatesSchema(tl, raw) ==
    \/ tl = "jobhistory_list_jobs" /\ raw.limit.t = "int" /\ (raw.limit.v < 1 \/ raw.limit.v > 100)
    \/ tl = "jobhistory_list_jobs"
        /\ \E f \in {"started_time_begin", "started_time_end",
                     "finished_time_begin", "finished_time_end"} :
              raw[f].t = "int" /\ raw[f].v < 0
    \/ HasJobId(tl) /\ ViolatesId(raw.job_id)
    \/ HasTaskId(tl) /\ ViolatesId(raw.task_id)
    \/ HasAttemptId(tl) /\ ViolatesId(raw.attempt_id)
    \/ tl = "jobhistory_get_job" /\ raw.job_id.t = "str" /\ Len(Strip(raw.job_id.v)) > 100
    \/ tl = "jobhistory_list_jobs" /\ ViolatesEnum(raw.state, JobState)
    \/ tl = "jobhistory_list_tasks" /\ ViolatesEnum(raw.task_type, TaskType)
    \/ tl \in LogTools /\ ViolatesEnum(raw.log_type, LogType)
    \/ HasFormat(tl) /\ ViolatesEnum(raw.response_format, ResponseFormat)

\* C2: a call whose arguments violate the schema of its handler is rejected and
\* issues no upstream request, and a rejected call never has issued one.
C2_RejectedCallIssuesNoRequest ==
    /\ tool \in Tools /\ ViolatesSchema(tool, input) => pc = "rejected"
    /\ pc = "rejected" => requests = <<>> /\ inflight = {} /\ result.kind = "none"

C2_Witness ==
    /\ pc = "rejected"
    /\ tool = "jobhistory_list_jobs"
    /\ input.limit = JInt(101)
    /\ requests = <<>>

\* the URLs the log handlers are to ask for, written out
AttemptDetailUrl ==
    JOBHISTORY_BASE_URL \o <<"/", "mapreduce/jobs/">> \o params.job_id.v \o <<"/tasks/">>
        \o params.task_id.v \o <<"/attempts/">> \o params.attempt_id.v
JobDetailUrl == JOBHISTORY_BASE_URL \o <<"/", "mapreduce/jobs/">> \o params.job_id.v

\* C3: in a log handler the requests are attempt detail, job detail, log page, in
\* that order; the job detail is requested only after the attempt detail was
\* answered, the log page only after both lookups gave a non-empty container id,
\* node address and user; never are two requests in flight.
C3_LogRequestsSequential ==
    IsLogTool =>
        /\ Cardinality(inflight) <= 1
        /\ Len(requests) <= 3
        /\ Len(requests) >= 1 =>
              requests[1].via = "_make_request" /\ requests[1].url = AttemptDetailUrl
        /\ Len(requests) >= 2 =>
              /\ requests[2].via = "_make_request" /\ requests[2].url = JobDetailUrl
              /\ Len(responses) >= 1 /\ responses[1].req = 1
              /\ IsObject(responses[1].outcome)
              /\ ~Lacks(responses[1].outcome.body.ent.assignedContainerId)
              /\ ~Lacks(responses[1].outcome.body.ent.nodeHttpAddress)
        /\ Len(requests) >= 3 =>
              /\ requests[3].via = "_fetch_logs_html"
              /\ Len(responses) >= 2 /\ responses[2].req = 2
              /\ IsObject(responses[2].outcome)
              /\ ~Lacks(responses[2].outcome.body.ent.user)

C3_Witness ==
    /\ IsLogTool
    /\ Len(requests) = 3
    /\ inflight = {3}
    /\ Len(responses) = 2

\* no two requests of the invocation are the same
NoRepeatedRequest ==
    \A i \in 1..Len(requests) : \A j \in 1..Len(requests) :
        i # j => requests[i] # requests[j]

\* C4: no request is repeated, a single-resource handler issues at most 1 and a
\* log handler at most 3 requests; once a request has failed or a looked-up field
\* is missing, the invocation has ended with an error string and that request was
\* its last.
C4_NoRetryFailureAborts ==
    /\ NoRepeatedRequest
    /\ Len(requests) <= IF IsLogTool THEN 3 ELSE 1
    /\ \A k \in 1..Len(responses) :
          IsFailure(responses[k].outcome) =>
              /\ pc = "done"
              /\ k = Len(responses)
              /\ Len(requests) = responses[k].req
              /\ result.kind = "returned"
              /\ result.str.tag \in ErrorTags
    /\ result.kind = "returned" /\ result.str.tag \in {"no_container", "no_node", "no_user"} =>
          /\ pc = "done"
          /\ Len(requests) = Len(responses)
          /\ \A i \in 1..Len(requests) : requests[i].via = "_make_request"

C4_Witness ==
    /\ IsLogTool
    /\ pc = "done"
    /\ Len(responses) = 2
    /\ IsFailure(responses[2].outcome)
    /\ Len(requests) = 2
    /\ result.str.tag \in ErrorTags

\* C5: in a log handler an attempt detail without assignedContainerId ends the
\* invocation with the missing-container message, a job detail without user ends
\* it with the missing-user message, and in neither case is the log page requested.
C5_MissingContainerAndUser ==
    IsLogTool =>
        /\ Len(responses) >= 1 /\ IsObject(responses[1].outcome)
            /\ Lacks(responses[1].outcome.body.ent.assignedContainerId) =>
              /\ pc = "done"
              /\ result.kind = "returned"
              /\ result.str.tag = "no_container"
              /\ HasFragment(result.str.toks,
                             "Error: cannot get the container ID. Check attempt_id.")
              /\ Len(requests) = 1
        /\ Len(responses) >= 2 /\ IsObject(responses[2].outcome)
            /\ Lacks(responses[2].outcome.body.ent.user) =>
              /\ pc = "done"
              /\ result.kind = "returned"
              /\ result.str.tag = "no_user"
              /\ HasFragment(result.str.toks, "Error: cannot get the job user. Check job_id.")
              /\ Len(requests) = 2
              /\ \A i \in 1..Len(requests) : requests[i].via = "_make_request"

\* the attempt lookup succeeded and the job detail has no user
C5_Witness ==
    /\ IsLogTool
    /\ pc = "done"
    /\ Len(responses) = 2
    /\ IsObject(responses[2].outcome)
    /\ responses[2].outcome.body.ent.user = Absent
    /\ result.str.tag = "no_user"

\* the phrase that tells each status-specific message from the others
StatusPhrase(c) ==
    CASE c = 404 -> "not found"
      [] c = 403 -> "insufficient permission"
      [] c = 401 -> "authentication failed"
      [] c = 500 -> "server internal error"
      [] c = 503 -> "service temporarily unavailable"

SpecificCodes == {404, 403, 401, 500, 503}

\* C6: when the last upstream response has a non-2xx status c, the handler has
\* returned a message fixed by c: the one with c's own phrase and none of the
\* other four phrases when c is 404, 403, 401, 500 or 503, and otherwise the
\* generic message, which holds the decimal code and none of the five phrases.
C6_StatusCodeMessages ==
    Len(responses) >= 1 /\ LastOutcome.kind = "response" /\ ~IsSuccess(LastOutcome.status) =>
        LET c == LastOutcome.status
            msg == result.str.toks
        IN /\ pc = "done"
           /\ result.kind = "returned"
           /\ result.str.enc = "text"
           /\ \A d \in SpecificCodes : HasFragment(msg, StatusPhrase(d)) <=> d = c
           /\ c \notin SpecificCodes =>
                 msg = <<"Error: API request failed, HTTP status code ", IntStr(c), ".">>

C6_Witness ==
    /\ pc = "done"
    /\ tool = "jobhistory_get_job"
    /\ LastOutcome.kind = "response"
    /\ LastOutcome.status = 404
    /\ HasFragment(result.str.toks, "not found")

\* the failure classes the claim speaks of
IsTimeout(o) == o.kind = "fail" /\ o.cls \in {"ReadTimeout", "ConnectTimeout"}
IsConnectFailure(o) == o.kind = "fail" /\ o.cls = "ConnectError"

NamesBaseUrl(msg) == HasSubstring(msg, JOBHISTORY_BASE_URL)
NamesTimeout(msg) == HasSubstring(msg, REQUEST_TIMEOUT)

\* C7 as stated: after an upstream call failed by timeout or by connection
\* failure, the returned message names the configured base URL and the configured
\* timeout value.
C7_FailureMessageNamesUrlAndTimeout ==
    Len(responses) >= 1 /\ (IsTimeout(LastOutcome) \/ IsConnectFailure(LastOutcome)) =>
        /\ pc = "done"
        /\ result.kind = "returned"
        /\ NamesBaseUrl(result.str.toks)
        /\ NamesTimeout(result.str.toks)

\* C7 amended: after a timeout the returned message names the configured timeout
\* value and not the base URL; after a connection failure it names the configured
\* base URL and not the timeout value; REST calls and the log-page fetch alike.
C7_FailureMessageNamesUrlOrTimeout ==
    /\ Len(responses) >= 1 /\ IsTimeout(LastOutcome) =>
          /\ pc = "done"
          /\ result.kind = "returned"
          /\ NamesTimeout(result.str.toks)
          /\ ~NamesBaseUrl(result.str.toks)
    /\ Len(responses) >= 1 /\ IsConnectFailure(LastOutcome) =>
          /\ pc = "done"
          /\ result.kind = "returned"
          /\ NamesBaseUrl(result.str.toks)
          /\ ~NamesTimeout(result.str.toks)

\* the log-page fetch of a log handler timed out
C7_Witness ==
    /\ IsLogTool
    /\ pc = "done"
    /\ Len(responses) = 3
    /\ requests[3].via = "_fetch_logs_html"
    /\ IsTimeout(LastOutcome)
    /\ NamesTimeout(result.str.toks)

\* every upstream call of the invocation was answered with a usable body, and a
\* log handler went through all three calls
AllUpstreamSucceeded ==
    /\ Len(responses) = (IF IsLogTool THEN 3 ELSE 1)
    /\ \A k \in 1..Len(responses) :
          /\ responses[k].outcome.kind = "response"
          /\ IsSuccess(responses[k].outcome.status)
          /\ responses[k].outcome.body.shape \in {"object", "html"}

\* C8 as stated: with response_format json and every upstream call successful the
\* returned string is JSON, empty collection or empty log included; with markdown
\* or no response_format it is the narrative rendering.
C8_JsonModeReturnsJson ==
    pc = "done" /\ HasFormat(tool) /\ AllUpstreamSucceeded =>
        /\ result.kind = "returned"
        /\ result.str.enc = (IF IsJson(params) THEN "json" ELSE "text")

\* the upstream names of the listing filters
UpstreamName(f) ==
    CASE f = "user" -> "user"
      [] f = "state" -> "state"
      [] f = "queue" -> "queue"
      [] f = "limit" -> "limit"
      [] f = "started_time_begin" -> "startedTimeBegin"
      [] f = "started_time_end" -> "startedTimeEnd"
      [] f = "finished_time_begin" -> "finishedTimeBegin"
      [] f = "finished_time_end" -> "finishedTimeEnd"
      [] f = "task_type" -> "type"

\* the query holds the field's value under its upstream name exactly when the
\* field is not null
Forwards(query, f) ==
    LET held == {i \in 1..Len(query) : query[i].k = UpstreamName(f)}
    IN IF IsNone(params[f]) THEN held = {}
       ELSE Cardinality(held) = 1 /\ \A i \in held : query[i].v = params[f]

\* C9 as stated: the query of the jobs listing and of the tasks listing holds
\* exactly the non-null input fields, each under its upstream name with the
\* input's value; a time bound of 0 is forwarded.
C9_QueryHoldsEveryPresentField ==
    /\ tool = "jobhistory_list_jobs" /\ Len(requests) >= 1 =>
          /\ \A f \in FilterFields : Forwards(requests[1].query, f)
          /\ Len(requests[1].query) = Cardinality({f \in FilterFields : ~IsNone(params[f])})
    /\ tool = "jobhistory_list_tasks" /\ Len(requests) >= 1 =>
          /\ Forwards(requests[1].query, "task_type")
          /\ Len(requests[1].query) = (IF IsNone(params.task_type) THEN 0 ELSE 1)

\* the jobs listing has returned a list of jobs for a call with a limit
JobsListed ==
    /\ tool = "jobhistory_list_jobs"
    /\ pc = "done"
    /\ params.limit.t = "int"
    /\ result.kind = "returned"
    /\ result.str.tag \in {"jobs_json", "jobs_md"}

HasParams == tool \in Tools \ {"jobhistory_get_info"}

\* the outcome of validation is the one the input model gives for parameter set P
ValidatedAs(P) ==
    /\ input = P
    /\ pc = "rejected" <=> ~InputOk(tool, P)
    /\ pc # "rejected" => params = InputModel(tool, P)

\* C11: a parameter set P passed as the JSON string that encodes it has the
\* validation outcome of P passed as an object: rejected in both forms, or
\* accepted in both with the same field values; a string that is no JSON text
\* reaches validation as the string it is and is rejected without any request.
C11_JsonStringSameAsObject ==
    HasParams =>
        /\ args.encodes => ValidatedAs(args.obj)
        /\ ~args.encodes =>
              /\ pc = "rejected"
              /\ requests = <<>>
              /\ Loads(args.text).kind = "error" => parse_json_string(args).kind = "str"

\* a jobs listing whose limit, time bound and format came in one JSON string
C11_Witness ==
    /\ tool = "jobhistory_list_jobs"
    /\ args.form = "string"
    /\ args.encodes
    /\ pc = "awaiting"
    /\ params.limit = JInt(2)
    /\ params.finished_time_end = JInt(5)
    /\ params.response_format = JStr("json")

\* the URL of the log page request, and the fragments of a query string
LogPageUrl == requests[3].url
QueryFragments ==
    {"?start=", "&end=", "?start=0&start.time=0&end.time=9223372036854775807"}

\* the byte range the caller asked for
CallerStart == IF input.start.t = "int" THEN input.start.v ELSE -4096
CallerEnd == IF input.end.t = "int" THEN input.end.v ELSE 0

\* C12: the query of the log URL is fixed by the mode: the full-log handler ends
\* the URL with start=0&start.time=0&end.time=9223372036854775807, the partial-log
\* handler with start={start}&end={end} holding the caller's integers as they are
\* (negative, zero, start > end); the query follows the path and nothing else of
\* the URL belongs to a query.
C12_LogQueryFixedByMode ==
    IsLogTool /\ Len(requests) >= 3 =>
        LET n == Len(LogPageUrl)
            q == IF tool = "jobhistory_get_task_attempt_logs"
                 THEN <<"?start=0&start.time=0&end.time=9223372036854775807">>
                 ELSE <<"?start=", ToString(CallerStart), "&end=", ToString(CallerEnd)>>
        IN /\ n > Len(q)
           /\ SubSeq(LogPageUrl, n - Len(q) + 1, n) = q
           /\ LogPageUrl[n - Len(q)] = "/"
           /\ \A i \in 1..(n - Len(q)) : LogPageUrl[i] \notin QueryFragments

\* a negative start with an end below it, passed on as they are
C12_Witness ==
    /\ tool = "jobhistory_get_task_attempt_logs_partial"
    /\ Len(requests) = 3
    /\ input.start = JInt(-5)
    /\ input.end = JInt(-1)
    /\ SubSeq(LogPageUrl, Len(LogPageUrl) - 3, Len(LogPageUrl))
           = <<"?start=", "-5", "&end=", "-1">>

\* what the two lookups of this invocation answered
AnsweredAttempt == responses[1].outcome.body.ent
AnsweredJob == responses[2].outcome.body.ent

\* host is addr without its port: addr up to its last colon, or all of addr when
\* it has no colon
IsHostOf(host, addr) ==
    \/ host = addr /\ \A i \in 1..Len(addr) : addr[i] # ":"
    \/ \E k \in 1..Len(addr) :
          /\ addr[k] = ":"
          /\ \A i \in (k + 1)..Len(addr) : addr[i] # ":"
          /\ host = SubSeq(addr, 1, k - 1)

\* C13: the path of the log URL is
\* {logs_base}/{hostname}:{NODEMANAGER_PORT}/{container_id}/{attempt_id}/{user}/{log_type}/
\* with container id and node address from the attempt detail answered in this
\* invocation, user from the job detail answered in this invocation, attempt id
\* and log type from the input, the configured port 8052 in place of the port of
\* the node address, and logs_base the scheme and host of the base URL followed
\* by /jobhistory/logs.
C13_LogUrlPath ==
    IsLogTool /\ Len(requests) >= 3 =>
        \E host \in {SubSeq(AnsweredAttempt.nodeHttpAddress.v, 1, k)
                          : k \in 0..Len(AnsweredAttempt.nodeHttpAddress.v)} :
            /\ IsHostOf(host, AnsweredAttempt.nodeHttpAddress.v)
            /\ \E query \in {SubSeq(LogPageUrl, k, Len(LogPageUrl)) : k \in 1..Len(LogPageUrl)} :
                  LogPageUrl =
                      <<"https", "://", "jobhistory.hellobike.cn", "/jobhistory/logs", "/">>
                          \o host \o <<":", "8052", "/">>
                          \o AnsweredAttempt.assignedContainerId.v \o <<"/">>
                          \o params.attempt_id.v \o <<"/">>
                          \o AnsweredJob.user.v \o <<"/", params.log_type.v, "/">>
                          \o query
                  /\ query[1] \in QueryFragments

\* the node address n1.dc:8042 became n1.dc:8052 in the URL
C13_Witness ==
    /\ IsLogTool
    /\ Len(requests) = 3
    /\ AnsweredAttempt.nodeHttpAddress = JStr(S_node)
    /\ HasSubstring(LogPageUrl, S_host \o <<":", "8052", "/">> \o S_container)
    /\ ~HasSubstring(LogPageUrl, <<"8", "0", "4", "2">>)

NoColon(s) == \A i \in 1..Len(s) : s[i] # ":"

\* C14: hostname extraction removes exactly the part from the last colon on: an
\* address with a colon gives the prefix before its last colon, earlier colons
\* kept; an address without a colon is returned unchanged; extraction applied to
\* a colon-free result changes nothing.
C14_HostnameCutAtLastColon ==
    fn = "_extract_hostname" =>
        /\ IsHostOf(out, arg)
        /\ NoColon(arg) => out = arg
        /\ NoColon(out) => _extract_hostname(out) = out

\* an address with two colons keeps the earlier one
C14_Witness ==
    /\ fn = "_extract_hostname"
    /\ arg = <<"h", ":", "h", ":">>
    /\ out = <<"h", ":", "h">>


----------------------------------------------------------------------------
\* C15

\* invocation c run alone against the first n of the upstream outcomes it received
RECURSIVE Alone(_, _)
Alone(c, n) ==
    IF n = 0
    THEN Advanced([IdleCall EXCEPT !.tool = c.tool, !.params = c.params,
                                   !.request_id = c.request_id],
                  0, Begin(c.tool, c.params))
    ELSE LET before == Alone(c, n - 1)
             got == c.responses[n]
             r == IF before.requests[got.req].via = "_make_request"
                  THEN _make_request(got.outcome)
                  ELSE _fetch_logs_html(got.outcome)
         IN Advanced([before EXCEPT !.responses = Append(@, got)], got.req,
                     Handler(before.tool, before.params, before.locals, r))

RanAlone(c) == Alone(c, Len(c.responses))

\* C15: in every interleaving of the upstream-call steps of the invocations in
\* flight together, each invocation has issued the requests, and has returned the
\* string, that it issues and returns when it runs alone against the upstream
\* outcomes it received.
C15_ConcurrentInvocationsIndependent ==
    \A i \in Callers :
        calls[i].pc # "idle" =>
            /\ calls[i].requests = RanAlone(calls[i]).requests
            /\ calls[i].result = RanAlone(calls[i]).result
            /\ calls[i].pc = RanAlone(calls[i]).pc

\* both log invocations ended with the log content, each for its own container,
\* and invocation 2 logged between two lines of invocation 1
C15_Witness ==
    /\ \A i \in Callers :
        /\ calls[i].pc = "done"
        /\ calls[i].tool \in LogTools
        /\ calls[i].result.kind = "returned"
        /\ calls[i].result.str.tag \in {"logs_md", "logs_json"}
    /\ calls[1].locals.container_id # calls[2].locals.container_id
    /\ \E a, b, c \in 1..Len(log) :
        /\ a < b /\ b < c
        /\ log[a].request_id = NewRequestId(1)
        /\ log[b].request_id = NewRequestId(2)
        /\ log[c].request_id = NewRequestId(1)



----------------------------------------------------------------------------
\* C16

\* the milliseconds a formatting helper was applied to
AppliedMs == IF fn = "_format_timestamp" THEN arg.ms ELSE arg

\* an epoch past the last second of year 9999 in the zone of the process
OutOfRangeEpoch ==
    /\ fn = "_format_timestamp"
    /\ ~NotPositive(arg.ms)
    /\ ~Less(DivMod(arg.ms.limbs, 1000).q, YearLimit(arg.utcoffset))

\* C16: _format_timestamp and _format_duration return "N/A" for every ms <= 0 and
\* for a missing ms, _format_timestamp returns "N/A" for every epoch that is out
\* of range too, and neither raises.
C16_SentinelAndNeverRaises ==
    fn \in {"_format_timestamp", "_format_duration"} =>
        /\ ~out.raised
        /\ NotPositive(AppliedMs) => out.value = <<"N/A">>
        /\ OutOfRangeEpoch => out.value = <<"N/A">>



----------------------------------------------------------------------------
\* C17

\* _format_duration was applied to a positive ms below 2 * 10^9
DurationOfPositiveMs ==
    /\ fn = "_format_duration"
    /\ ~NotPositive(arg)
    /\ Len(arg.limbs) <= 2 \/ (Len(arg.limbs) = 3 /\ arg.limbs[1] < 2000)

\* the seconds form, the minutes form and the hours form of s seconds
SecondsForm(s) == <<ToString(s), "s">>
MinutesForm(s) == <<ToString(s \div 60), "m", ToString(s % 60), "s">>
HoursForm(s) ==
    <<ToString(s \div 3600), "h", ToString((s % 3600) \div 60), "m", ToString(s % 60), "s">>

\* C17: for ms > 0 _format_duration renders s = floor(ms / 1000): the seconds form
\* when s < 60, the minutes form when 60 <= s < 3600, the hours form when
\* s >= 3600; 59999 ms and 60000 ms, 3599999 ms and 3600000 ms lie on either side
\* of a tier boundary; the components of every form recombine to s.
C17_DurationTiers ==
    DurationOfPositiveMs =>
        LET ms == ValueOf(arg.limbs)
            s == ms \div 1000
        IN /\ ~out.raised
           /\ s < 60 => out.value = SecondsForm(s)
           /\ (60 <= s /\ s < 3600) =>
                /\ out.value = MinutesForm(s)
                /\ (s \div 60) * 60 + (s % 60) = s
           /\ s >= 3600 =>
                /\ out.value = HoursForm(s)
                /\ (s \div 3600) * 3600 + ((s % 3600) \div 60) * 60 + (s % 60) = s
           /\ ms = 59999 => out.value = <<"59", "s">>
           /\ ms = 60000 => out.value = <<"1", "m", "0", "s">>
           /\ ms = 3599999 => out.value = <<"59", "m", "59", "s">>
           /\ ms = 3600000 => out.value = <<"1", "h", "0", "m", "0", "s">>

C17_Witness ==
    /\ DurationOfPositiveMs
    /\ arg = NumOf(3599999)
    /\ out.value = <<"59", "m", "59", "s">>



----------------------------------------------------------------------------
\* C18

\* 1024^1 .. 1024^5
Pow1024 ==
    <<<<1, 24>>, <<1, 48, 576>>, <<1, 73, 741, 824>>, <<1, 99, 511, 627, 776>>,
      <<1, 125, 899, 906, 842, 624>>>>

\* index of the unit: the smallest k with n / 1024^k < 1024, at most 5
UnitIndex(n) ==
    IF \E k \in 1..5 : Less(n, Pow1024[k])
    THEN (CHOOSE k \in 1..5 : Less(n, Pow1024[k]) /\ \A j \in 1..(k - 1) : ~Less(n, Pow1024[j])) - 1
    ELSE 5

\* n / 1024 in hundredths, rounded to the nearest and to the even one on a tie
KbHundredths(n) ==
    LET h == (100 * n + 512) \div 1024
    IN IF (100 * n + 512) % 1024 = 0 /\ h % 2 = 1 THEN h - 1 ELSE h

----------------------------------------------------------------------------
\* C19

\* the six entities and the characters they stand for
Entities ==
    {<<<<"&", "l", "t", ";">>, "<">>, <<<<"&", "g", "t", ";">>, ">">>,
     <<<<"&", "a", "m", "p", ";">>, "&">>, <<<<"&", "q", "u", "o", "t", ";">>, "\"">>,
     <<<<"&", "#", "3", "9", ";">>, "'">>, <<<<"&", "n", "b", "s", "p", ";">>, " ">>}

\* s with every entity replaced by its character, read once from left to right
RECURSIVE Decoded(_)
Decoded(s) ==
    IF s = <<>> THEN <<>>
    ELSE IF \E e \in Entities : MatchAt(s, 1, e[1])
    THEN LET e == CHOOSE e \in Entities : MatchAt(s, 1, e[1])
         IN <<e[2]>> \o Decoded(SubSeq(s, Len(e[1]) + 1, Len(s)))
    ELSE <<Head(s)>> \o Decoded(Tail(s))

\* C19: _extract_pre_content returns the content of the first pre element of the
\* document (start tag in any case and with attributes, content over line breaks,
\* later pre elements ignored) with the entities decoded and the white space
\* around it trimmed, and the empty string for a document without pre element.
C19_FirstPreContent ==
    fn = "_extract_pre_content" =>
        /\ arg \in NoPreDocuments => out = <<>>
        /\ \A a \in PrePrefixes, b \in PreOpens, c \in PreContents,
              d \in PreCloses, e \in PreSuffixes :
                arg = Document(a, b, c, d, e) => out = Strip(Decoded(c))

\* an upper-case pre element over two lines, followed by another pre element
C19_Witness ==
    /\ fn = "_extract_pre_content"
    /\ arg = Document(<<"x", "\n">>, <<"<", "P", "R", "E", ">">>,
                      <<" ", "a", "\n", "b", "\t">>, <<"<", "/", "P", "R", "E", ">">>,
                      <<"<", "p", "r", "e", ">", "2", "<", "/", "p", "r", "e", ">">>)
    /\ out = <<"a", "\n", "b">>



----------------------------------------------------------------------------
\* C20

CounterKeys == <<"counterGroup", "taskCounterGroup", "taskAttemptCounterGroup">>

\* the groups under the first of the three keys that the response carries
FirstPresentGroups(d) ==
    IF \E k \in 1..3 : d[CounterKeys[k]].t # "absent"
    THEN d[CounterKeys[CHOOSE k \in 1..3 :
                /\ d[CounterKeys[k]].t # "absent"
                /\ \A j \in 1..(k - 1) : d[CounterKeys[j]].t = "absent"]].v
    ELSE <<>>

\* C20: _format_counters_markdown renders the groups of the first key that is
\* present, in the order counterGroup, taskCounterGroup, taskAttemptCounterGroup,
\* and no group when none is present; a key that is present is used even when a
\* key of lower priority is present too.
C20_GroupsOfFirstPresentKey ==
    fn = "_format_counters_markdown" =>
        out.value = CountersMarkdown(FirstPresentGroups(arg), <<"Counters">>)

----------------------------------------------------------------------------
\* C21

\* the counter of a response with one group of one counter
TheCounter == arg.counterGroup.v[1].counter.v[1]

FormattedOneCounter ==
    /\ fn = "_format_counters_markdown"
    /\ \E c \in CounterVariants : arg = OneCounter(c)

\* the total a counter shows: its direct total, else its generic value, else 0
ShownTotal(c) ==
    IF c.totalCounterValue.t # "absent" THEN c.totalCounterValue.v
    ELSE IF c.value.t # "absent" THEN c.value.v
    ELSE 0

BothSides(c) == c.mapCounterValue.t = "int" /\ c.reduceCounterValue.t = "int"

\* C21: the line of a counter shows the direct total when the counter has one,
\* otherwise the generic value, otherwise 0; the map and reduce values follow in
\* parentheses exactly when both are there.
C21_CounterTotalAndSides ==
    FormattedOneCounter =>
        LET c == TheCounter
            line == <<"- **", "C", "**: ", Comma(ShownTotal(c))>>
            sides == <<" (Map: ", Comma(c.mapCounterValue.v), ", Reduce: ",
                       Comma(c.reduceCounterValue.v), ")", "\n">>
        IN /\ BothSides(c) => HasSubstring(out.value, line \o sides)
           /\ ~BothSides(c) =>
                /\ HasSubstring(out.value, line \o <<"\n">>)
                /\ ~HasFragment(out.value, " (Map: ")

\* no direct total, a generic value of 42, and both sides, the map side zero
C21_Witness ==
    /\ FormattedOneCounter
    /\ TheCounter.totalCounterValue = Absent
    /\ TheCounter.value = JInt(42)
    /\ TheCounter.mapCounterValue = JInt(0)
    /\ HasSubstring(out.value, <<"**: ", "42", " (Map: ", "0", ", Reduce: ", "6", ")">>)

----------------------------------------------------------------------------
\* C22

\* the partial handler rendered a log
PartialRendered ==
    /\ pc = "done"
    /\ tool = "jobhistory_get_task_attempt_logs_partial"
    /\ result.kind = "returned"
    /\ result.str.tag \in {"logs_json", "logs_md"}

RenderedLog == result.str.doc.items[1]

\* the description the requested range alone asks for
RangeForm(start, end) ==
    IF start < 0 THEN <<"last ", IntStr(-start), " bytes">>
    ELSE IF end = 0 THEN <<"from ", IntStr(start), " bytes to the end">>
    ELSE <<IntStr(start), " - ", IntStr(end), " bytes">>

\* C22: the range description of the partial-log handler follows from the
\* requested range alone: "last N bytes" with N = |start| when start < 0, else
\* "from start to the end" when end = 0, else "start - end"; the markdown and the
\* JSON output both carry it, and the JSON output carries start and end unmodified.
C22_RangeDescription ==
    PartialRendered =>
        /\ RenderedLog.description = RangeForm(CallerStart, CallerEnd)
        /\ result.str.enc = "json" =>
              /\ RenderedLog.start = CallerStart
              /\ RenderedLog.end = CallerEnd

\* C22 as stated: the markdown output too carries start and end unmodified.
C22_StartAndEndInBothOutputs ==
    PartialRendered =>
        /\ RenderedLog.description = RangeForm(CallerStart, CallerEnd)
        /\ {"start", "end"} \subseteq DOMAIN RenderedLog
        /\ RenderedLog.start = CallerStart
        /\ RenderedLog.end = CallerEnd

\* a negative start with an end that is not 0, rendered as markdown
C22_Witness ==
    /\ PartialRendered
    /\ result.str.enc = "text"
    /\ CallerStart = -5
    /\ CallerEnd = 3
    /\ RenderedLog.description = <<"last ", "5", " bytes">>

----------------------------------------------------------------------------
\* C23

\* the jobs listing ended after the upstream returned a job list that is not empty
JobListReturned ==
    /\ tool = "jobhistory_list_jobs"
    /\ pc = "done"
    /\ IsObject(LastOutcome)
    /\ LastOutcome.body.list # <<>>

UpstreamJobs == LastOutcome.body.list

----------------------------------------------------------------------------
\* C24

\* the job configuration handler ended with a filter_key, the upstream having
\* returned a configuration
ConfFiltered ==
    /\ tool = "jobhistory_get_job_conf"
    /\ pc = "done"
    /\ input.filter_key.t = "str"
    /\ IsObject(LastOutcome)

\* name has key as a substring, case ignored
NameHasKey(prop, key) ==
    LET name == lower(IF prop.name.t = "str" THEN prop.name.v ELSE <<>>)
        low == lower(key)
    IN \E i \in 1..(Len(name) - Len(low) + 1) :
          \A k \in 1..Len(low) : name[i + k - 1] = low[k]

\* C24: with a filter_key, every property of the result has a name that contains
\* filter_key, case ignored, no such property of the upstream response is left
\* out, and the reported count is the number of such properties.
C24_OnlyAndAllMatchingProperties ==
    ConfFiltered =>
        LET upstream == LastOutcome.body.list
            key == input.filter_key.v
            matching == SelectSeq(upstream, LAMBDA prop : NameHasKey(prop, key))
        IN /\ result.kind = "returned"
           /\ result.str.doc.props = matching
           /\ result.str.enc = "text" => result.str.doc.n = Len(matching)

----------------------------------------------------------------------------
\* C25

\* a log handler received the task attempt detail
AttemptDetailArrived ==
    /\ IsLogTool
    /\ Len(responses) >= 1
    /\ IsObject(responses[1].outcome)

AttemptDetail == responses[1].outcome.body.ent

ContainerPhrase == "Error: cannot get the container ID. Check attempt_id."
NodePhrase == "Error: cannot get the node address. Check attempt_id."

\* C25: in both log handlers a missing container id and a missing node address
\* give two different strings: the container string whenever assignedContainerId
\* is absent or empty, the node string only when the container id is there and
\* nodeHttpAddress is absent or empty; the job detail is not requested in
\* either case.
C25_ContainerAndNodeErrorsDistinct ==
    /\ ContainerPhrase # NodePhrase
    /\ AttemptDetailArrived =>
        /\ Lacks(AttemptDetail.assignedContainerId) =>
              /\ pc = "done"
              /\ result.kind = "returned"
              /\ result.str.toks = <<ContainerPhrase>>
              /\ Len(requests) = 1
        /\ ~Lacks(AttemptDetail.assignedContainerId) /\ Lacks(AttemptDetail.nodeHttpAddress) =>
              /\ pc = "done"
              /\ result.kind = "returned"
              /\ result.str.toks = <<NodePhrase>>
              /\ Len(requests) = 1
        /\ pc = "done" /\ result.kind = "returned" /\ result.str.toks = <<NodePhrase>> =>
              /\ ~Lacks(AttemptDetail.assignedContainerId)
              /\ Lacks(AttemptDetail.nodeHttpAddress)

\* neither the container id nor the node address: the container string
C25_Witness ==
    /\ AttemptDetailArrived
    /\ tool = "jobhistory_get_task_attempt_logs_partial"
    /\ AttemptDetail.assignedContainerId = Absent
    /\ AttemptDetail.nodeHttpAddress = JStr(<<>>)
    /\ result.str.toks = <<ContainerPhrase>>
    /\ Len(requests) = 1

----------------------------------------------------------------------------
\* C26

\* the log page of a log handler arrived
LogPageArrived ==
    /\ IsLogTool
    /\ Len(responses) = 3
    /\ responses[3].outcome.kind = "response"
    /\ IsSuccess(responses[3].outcome.status)

FetchedPage == responses[3].outcome.body.text

\* s has <pre, whatever the case
HasPre(s) == \E i \in 1..Len(s) : MatchAtI(s, i, <<"<", "p", "r", "e">>)

NoContentPhrase == "Log is empty or cannot be parsed. Log URL: "

----------------------------------------------------------------------------
\* C27

\* C27: the entities of the pre content are decoded in one pass: each occurrence
\* of the six entities is replaced once and the decoded text is not decoded
\* again, so that an entity escaped once more (&amp;quot;) comes out as the
\* entity (&quot;), for each of the six.
C27_DecodedOnce ==
    fn = "_extract_pre_content" =>
        \A c \in EscapedContents : arg = EscapedDocument(c) => out = Decoded(c)

----------------------------------------------------------------------------
\* C28

\* the one mapping from state to icon
StateIcon(state) ==
    IF state = JStr(<<"SUCCEEDED">>) THEN "check"
    ELSE IF state = JStr(<<"FAILED">>) THEN "cross"
    ELSE IF state = JStr(<<"KILLED">>) THEN "warning"
    ELSE IF state = JStr(<<"RUNNING">>) THEN "cycle"
    ELSE "question"

IconTools ==
    {"jobhistory_list_jobs", "jobhistory_get_job", "jobhistory_get_task",
     "jobhistory_list_task_attempts", "jobhistory_get_task_attempt"}

\* one of the five handlers rendered its markdown
IconsRendered ==
    /\ tool \in IconTools
    /\ pc = "done"
    /\ IsObject(LastOutcome)
    /\ result.kind = "returned"
    /\ result.str.enc = "text"
    /\ result.str.doc.n > 0

\* the states the upstream sent, in the order of the rendering
UpstreamStates ==
    IF tool \in {"jobhistory_list_jobs", "jobhistory_list_task_attempts"}
    THEN [i \in 1..Len(LastOutcome.body.list) |-> LastOutcome.body.list[i].state]
    ELSE <<LastOutcome.body.ent.state>>

RenderedIcons ==
    IF tool = "jobhistory_list_jobs"
    THEN [i \in 1..Len(result.str.doc.items) |-> result.str.doc.items[i].icon]
    ELSE result.str.doc.icons

\* C28: the jobs listing, the job detail, the task detail, the task attempts
\* listing and the task attempt detail render the icon of one and the same
\* mapping for every state, and the unknown icon for every state the mapping
\* does not have.
C28_OneStateIconMapping ==
    IconsRendered =>
        /\ Len(RenderedIcons) = Len(UpstreamStates)
        /\ \A i \in 1..Len(UpstreamStates) : RenderedIcons[i] = StateIcon(UpstreamStates[i])

----------------------------------------------------------------------------
\* C29

\* the tasks listing rendered its markdown
TasksRendered ==
    /\ tool = "jobhistory_list_tasks"
    /\ pc = "done"
    /\ IsObject(LastOutcome)
    /\ result.kind = "returned"
    /\ result.str.tag = "tasks_md"

\* the number of rows of section that show task
RowsOf(section, task) == Cardinality({i \in 1..Len(section) : section[i] = task})

\* C29: in the markdown of the tasks listing every task of the upstream list is in
\* exactly one of the two sections, and the announced total is the number of Map
\* rows plus the number of Reduce rows, whatever the type of a task is, missing
\* included.
C29_EveryTaskInOneSection ==
    TasksRendered =>
        LET doc == result.str.doc
            tasks == LastOutcome.body.list
        IN /\ doc.n = Len(doc.map) + Len(doc.reduce)
           /\ \A i \in 1..Len(tasks) :
                 (RowsOf(doc.map, tasks[i]) > 0) # (RowsOf(doc.reduce, tasks[i]) > 0)

----------------------------------------------------------------------------
\* C30

\* the lines invocation i logged, in their order
LinesOf(i) ==
    LET own == SelectSeq(log, LAMBDA l : l.by = i)
    IN [k \in 1..Len(own) |-> own[k].line]

=============================================================================
